---- MODULE Spec2Model ----
(***************************************************************************)
(* A model of the netCDF-4/HDF5 file layer (libhdf5/hdf5file.c): the file  *)
(* lifecycle (create, open, redef, enddef, sync, abort, close), the        *)
(* process-wide chunk-cache defaults, and the reading of attributes with   *)
(* the reserved-attribute table.                                           *)
(*                                                                         *)
(* Bit masks (cmode, flags) are modelled as the set of the bits that are   *)
(* set: a & b is intersection, a | b is union, a ^ b is symmetric          *)
(* difference. A float preemption is modelled by its value in hundredths.  *)
(* Strings that are compared with strcmp are sequences of character codes. *)
(***************************************************************************)
EXTENDS Integers, Sequences, FiniteSets, TLC

VARIABLES
    nc4_chunk_cache,  \* the three process-wide defaults (hdf5file.c:698-700)
    files,            \* per slot: the NC_FILE_INFO_T of the open file, if any
    paths,            \* per slot: the length class of nc->path
    storage,          \* per slot: does a file exist on storage at nc->path
    last,             \* the last call: operation, arguments, return, pre-state
    obj,              \* attribute reading: the object whose attributes are read
    natts             \* attribute reading: the count NC4_inq handed back

vars == <<nc4_chunk_cache, files, paths, storage, last, obj, natts>>

(***************************************************************************)
(* Bounds                                                                  *)
(***************************************************************************)
MaxFiles == 1
MaxSize == 1
MaxVars == 1
MaxAtts == 2
MaxExtent == 2     \* extent of one dimension of a dataspace
MaxWidth == 2      \* bytes of a fixed-length string
MaxObjs == 3       \* objects (groups, datasets, named types) in a file
MaxDimid == 1      \* largest dimension id stored in a file

Slots == 1..MaxFiles

(***************************************************************************)
(* Bit masks                                                               *)
(***************************************************************************)
BitAnd(a, b) == a \cap b
BitOr(a, b) == a \cup b
BitXor(a, b) == (a \ b) \cup (b \ a)

NC_INDEF == {"NC_INDEF"}
NC_WRITE == {"NC_WRITE"}
NC_NOWRITE == {}
NC_CLASSIC_MODEL == {"NC_CLASSIC_MODEL"}
NC_INMEMORY == {"NC_INMEMORY"}
NC_MMAP == {"NC_MMAP"}
NC_64BIT_OFFSET == {"NC_64BIT_OFFSET"}
NC_CDF5 == {"NC_CDF5"}
NC_NETCDF4 == {"NC_NETCDF4"}

ILLEGAL_OPEN_FLAGS == BitOr(NC_MMAP, NC_64BIT_OFFSET)
ILLEGAL_CREATE_FLAGS == BitOr(BitOr(NC_NOWRITE, NC_MMAP), BitOr(NC_64BIT_OFFSET, NC_CDF5))

\* the mode bits a caller can pass
UserModes == (SUBSET {"NC_WRITE", "NC_CLASSIC_MODEL", "NC_INMEMORY"}) \cup {NC_MMAP}

DefaultFormats == {"NC_FORMAT_NETCDF4", "NC_FORMAT_NETCDF4_CLASSIC"}

(***************************************************************************)
(* Chunk cache defaults                                                    *)
(***************************************************************************)
SizeArgs == 0..MaxSize               \* size_t size
NelemsArgs == {0, MaxSize}           \* size_t nelems
IntArgs == (0 - 1)..MaxSize          \* int size
FloatArgs == {0 - 10, 0, 100, 150}   \* float preemption, in hundredths
PctArgs == {0 - 1, 100, 101}         \* int preemption * 100

CacheCfg(size, nelems, preemption) ==
    [size |-> size, nelems |-> nelems, preemption |-> preemption]

\* the configurations a build can start with (CHUNK_CACHE_SIZE, ...)
BuildDefaults == {CacheCfg(MaxSize, MaxSize, 100)}

\* (mutant: the size is stored before the preemption is validated)
nc_set_chunk_cache_partial(cache, size, nelems, preemption) ==
    IF preemption < 0 \/ preemption > 100
    THEN [cache |-> [cache EXCEPT !.size = size], ret |-> "NC_EINVAL"]
    ELSE [cache |-> CacheCfg(size, nelems, preemption), ret |-> "NC_NOERR"]

nc_set_chunk_cache(cache, size, nelems, preemption) ==
    IF preemption < 0 \/ preemption > 100
    THEN [cache |-> cache, ret |-> "NC_EINVAL"]
    ELSE [cache |-> CacheCfg(size, nelems, preemption), ret |-> "NC_NOERR"]

nc_set_chunk_cache_ints(cache, size, nelems, preemption) ==
    IF size <= 0 \/ nelems <= 0 \/ preemption < 0 \/ preemption > 100
    THEN [cache |-> cache, ret |-> "NC_EINVAL"]
    ELSE [cache |-> CacheCfg(size, nelems, preemption), ret |-> "NC_NOERR"]

(***************************************************************************)
(* The per-file record                                                     *)
(***************************************************************************)
PathLens == {"shorter", "equal", "longer"}   \* strlen(nc->path) against NC_MAX_NAME

NoVars == <<>>

ClosedFile ==
    [open |-> FALSE, cmode |-> {}, flags |-> {}, no_write |-> FALSE,
     redef |-> FALSE, cache |-> CacheCfg(0, 0, 0), vars |-> NoVars,
     fill_mode |-> "NC_FILL"]

\* nc4_nc4f_list_add: the zeroed record that keeps the mode it was given
nc4_nc4f_list_add(mode) ==
    [open |-> TRUE, cmode |-> mode, flags |-> {}, no_write |-> FALSE,
     redef |-> FALSE, cache |-> CacheCfg(0, 0, 0), vars |-> NoVars,
     fill_mode |-> "NC_FILL"]

\* outcomes of the calls into the container engine during one sync
GoodSync == [wfail |-> 0, flush |-> TRUE]
\* (the flush is only reached when no write step failed)
SyncEnvs == {e \in [wfail : 0..3, flush : BOOLEAN] : e.wfail # 0 => e.flush}
\* what an uninitialized int can hold when it is returned
Indeterminate == {"NC_NOERR", "NC_EHDFERR"}

WriteNames ==
    <<"nc4_rec_write_groups_types", "nc4_rec_detect_need_to_preserve_dimids",
      "nc4_rec_write_metadata">>

\* the three metadata write steps; step wfail (if not 0) fails
WriteSteps(wfail) ==
    IF wfail = 0
    THEN [ret |-> "NC_NOERR", trace |-> WriteNames]
    ELSE [ret |-> "NC_EHDFERR", trace |-> SubSeq(WriteNames, 1, wfail)]

sync_netcdf4_file(h5, env, junk) ==
    IF BitAnd(h5.flags, NC_INDEF) # {} /\ BitAnd(h5.cmode, NC_CLASSIC_MODEL) # {}
    THEN [h5 |-> h5, ret |-> "NC_EINDEFINE", trace |-> <<>>]
    ELSE
      LET h1 == IF BitAnd(h5.flags, NC_INDEF) # {}
                THEN [h5 EXCEPT !.flags = BitXor(@, NC_INDEF), !.redef = FALSE]
                ELSE h5
          dowrite == BitAnd(h1.cmode, NC_NOWRITE) = {}
          w == IF dowrite THEN WriteSteps(env.wfail)
                          ELSE [ret |-> junk, trace |-> <<>>]
      IN IF dowrite /\ w.ret # "NC_NOERR"
         THEN [h5 |-> h1, ret |-> w.ret, trace |-> w.trace]
         ELSE IF ~env.flush
              THEN [h5 |-> h1, ret |-> "NC_EHDFERR", trace |-> Append(w.trace, "H5Fflush")]
              ELSE [h5 |-> h1, ret |-> w.ret, trace |-> Append(w.trace, "H5Fflush")]

\* outcomes of the engine calls during one close
GoodClose == [sync |-> GoodSync, grpdel |-> TRUE, extract |-> TRUE]
\* (a later call is only reached when the earlier ones succeeded)
CloseEnvs == {e \in [sync : SyncEnvs, grpdel : BOOLEAN, extract : BOOLEAN] :
                 /\ e.sync # GoodSync => e.grpdel
                 /\ ~e.grpdel => e.extract}

\* (mutant: define mode is not ended before the sync)
close_netcdf4_file_keeps_indef(h5, abort, extractmem, env, junk) ==
    LET h1 == h5
        dosync == ~h1.no_write /\ ~abort
        s == IF dosync THEN sync_netcdf4_file(h1, env.sync, junk)
                       ELSE [h5 |-> h1, ret |-> "NC_NOERR", trace |-> <<>>]
        t1 == Append(s.trace, "nc4_rec_grp_del")
        doextract == extractmem /\ ~s.h5.no_write
        t2 == IF doextract THEN Append(t1, "NC4_extract_file_image") ELSE t1
        t3 == Append(t2, "H5Fclose")
    IN IF s.ret # "NC_NOERR"
       THEN [h5 |-> s.h5, ret |-> s.ret, trace |-> s.trace]
       ELSE IF ~env.grpdel
            THEN [h5 |-> s.h5, ret |-> "NC_EHDFERR", trace |-> t1]
            ELSE IF doextract /\ ~env.extract
                 THEN [h5 |-> s.h5, ret |-> "NC_EHDFERR", trace |-> t3]
                 ELSE [h5 |-> ClosedFile, ret |-> "NC_NOERR", trace |-> Append(t3, "free")]

\* (mutant: a read-only file is synced too)
close_netcdf4_file_syncs_readonly(h5, abort, extractmem, env, junk) ==
    LET h1 == IF BitAnd(h5.flags, NC_INDEF) # {}
              THEN [h5 EXCEPT !.flags = BitXor(@, NC_INDEF)]
              ELSE h5
        dosync == ~abort
        s == IF dosync THEN sync_netcdf4_file(h1, env.sync, junk)
                       ELSE [h5 |-> h1, ret |-> "NC_NOERR", trace |-> <<>>]
        t1 == Append(s.trace, "nc4_rec_grp_del")
        doextract == extractmem /\ ~s.h5.no_write
        t2 == IF doextract THEN Append(t1, "NC4_extract_file_image") ELSE t1
        t3 == Append(t2, "H5Fclose")
    IN IF s.ret # "NC_NOERR"
       THEN [h5 |-> s.h5, ret |-> s.ret, trace |-> s.trace]
       ELSE IF ~env.grpdel
            THEN [h5 |-> s.h5, ret |-> "NC_EHDFERR", trace |-> t1]
            ELSE IF doextract /\ ~env.extract
                 THEN [h5 |-> s.h5, ret |-> "NC_EHDFERR", trace |-> t3]
                 ELSE [h5 |-> ClosedFile, ret |-> "NC_NOERR", trace |-> Append(t3, "free")]

close_netcdf4_file(h5, abort, extractmem, env, junk) ==
    LET h1 == IF BitAnd(h5.flags, NC_INDEF) # {}
              THEN [h5 EXCEPT !.flags = BitXor(@, NC_INDEF)]
              ELSE h5
        dosync == ~h1.no_write /\ ~abort
        s == IF dosync THEN sync_netcdf4_file(h1, env.sync, junk)
                       ELSE [h5 |-> h1, ret |-> "NC_NOERR", trace |-> <<>>]
        t1 == Append(s.trace, "nc4_rec_grp_del")
        doextract == extractmem /\ ~s.h5.no_write
        t2 == IF doextract THEN Append(t1, "NC4_extract_file_image") ELSE t1
        t3 == Append(t2, "H5Fclose")
    IN IF s.ret # "NC_NOERR"
       THEN [h5 |-> s.h5, ret |-> s.ret, trace |-> s.trace]
       ELSE IF ~env.grpdel
            THEN [h5 |-> s.h5, ret |-> "NC_EHDFERR", trace |-> t1]
            ELSE IF doextract /\ ~env.extract
                 THEN [h5 |-> s.h5, ret |-> "NC_EHDFERR", trace |-> t3]
                 ELSE [h5 |-> ClosedFile, ret |-> "NC_NOERR", trace |-> Append(t3, "free")]

\* a variable read from the file is marked written (hdf5file.c:2473-2478)
ReadVar == [isnull |-> FALSE, written_to |-> TRUE]
ReadVars(n) == [i \in 1..n |-> ReadVar]

\* outcomes of the engine calls during one create or open
nc4_create_file(cmode, cache, fail) ==
    LET h0 == nc4_nc4f_list_add(BitOr(NC_WRITE, cmode))
        h1 == [h0 EXCEPT !.cache = cache]
        h2 == [h1 EXCEPT !.flags = BitOr(@, NC_INDEF)]
        made == fail # "H5Fcreate"
                /\ BitAnd(cmode, NC_INMEMORY) # NC_INMEMORY
    IN IF fail = "H5Fcreate"
       THEN [h5 |-> ClosedFile, ret |-> "EACCES", made |-> FALSE]
       ELSE IF fail = "fileinfo"
            THEN [h5 |-> ClosedFile, ret |-> "NC_EHDFERR", made |-> made]
            ELSE [h5 |-> h2, ret |-> "NC_NOERR", made |-> made]

NC4_create(cmode, deffmt, cache, fail) ==
    IF BitAnd(cmode, ILLEGAL_CREATE_FLAGS) # {}
    THEN [h5 |-> ClosedFile, ret |-> "NC_EINVAL", made |-> FALSE]
    ELSE LET c1 == BitOr(cmode, NC_NETCDF4)
             c2 == IF deffmt = "NC_FORMAT_NETCDF4_CLASSIC"
                   THEN BitOr(c1, NC_CLASSIC_MODEL) ELSE c1
         IN nc4_create_file(c2, cache, fail)

\* (mutant: the read-only flag is never set)
nc4_open_file_never_readonly(mode, cache, nvars, is_classic, fail) ==
    LET h0 == nc4_nc4f_list_add(mode)
        h1 == [h0 EXCEPT !.cache = cache]
        h3 == [h1 EXCEPT !.vars = ReadVars(nvars)]
        h4 == IF is_classic
              THEN [h3 EXCEPT !.cmode = BitOr(@, NC_CLASSIC_MODEL)] ELSE h3
    IN IF fail = "ok"
       THEN [h5 |-> h4, ret |-> "NC_NOERR"]
       ELSE [h5 |-> ClosedFile, ret |-> "NC_EHDFERR"]

\* (mutant: the cache of the file is not taken from the current defaults)
nc4_open_file_stale_cache(mode, cache, nvars, is_classic, fail) ==
    LET h0 == nc4_nc4f_list_add(mode)
        h2 == IF BitAnd(mode, NC_WRITE) = {}
              THEN [h0 EXCEPT !.no_write = TRUE] ELSE h0
        h3 == [h2 EXCEPT !.vars = ReadVars(nvars)]
        h4 == IF is_classic
              THEN [h3 EXCEPT !.cmode = BitOr(@, NC_CLASSIC_MODEL)] ELSE h3
    IN IF fail = "ok"
       THEN [h5 |-> h4, ret |-> "NC_NOERR"]
       ELSE [h5 |-> ClosedFile, ret |-> "NC_EHDFERR"]

nc4_open_file(mode, cache, nvars, is_classic, fail) ==
    LET h0 == nc4_nc4f_list_add(mode)
        h1 == [h0 EXCEPT !.cache = cache]
        h2 == IF BitAnd(mode, NC_WRITE) = {}
              THEN [h1 EXCEPT !.no_write = TRUE] ELSE h1
        h3 == [h2 EXCEPT !.vars = ReadVars(nvars)]
        h4 == IF is_classic
              THEN [h3 EXCEPT !.cmode = BitOr(@, NC_CLASSIC_MODEL)] ELSE h3
    IN IF fail = "ok"
       THEN [h5 |-> h4, ret |-> "NC_NOERR"]
       ELSE [h5 |-> ClosedFile, ret |-> "NC_EHDFERR"]

NC4_open(mode, cache, nvars, is_classic, fail) ==
    IF BitAnd(mode, ILLEGAL_OPEN_FLAGS) # {}
    THEN [h5 |-> ClosedFile, ret |-> "NC_EINVAL"]
    ELSE nc4_open_file(mode, cache, nvars, is_classic, fail)

FillModes == {"NC_FILL", "NC_NOFILL", "other"}

\* old_modep is only written, never read
NC4_set_fill(h5, fillmode) ==
    IF h5.no_write
    THEN [h5 |-> h5, ret |-> "NC_EPERM"]
    ELSE IF fillmode \notin {"NC_FILL", "NC_NOFILL"}
         THEN [h5 |-> h5, ret |-> "NC_EINVAL"]
         ELSE [h5 |-> [h5 EXCEPT !.fill_mode = fillmode], ret |-> "NC_NOERR"]

\* a variable defined in define mode has not been written to
NewVar == [isnull |-> FALSE, written_to |-> FALSE]
nc_def_var(h5) == [h5 EXCEPT !.vars = Append(@, NewVar)]

\* (mutant: a read-only file may enter define mode)
NC4_redef_no_perm_check(h5) ==
    IF BitAnd(h5.flags, NC_INDEF) # {}
    THEN [h5 |-> h5, ret |-> "NC_EINDEFINE"]
    ELSE [h5 |-> [h5 EXCEPT !.flags = BitOr(@, NC_INDEF), !.redef = TRUE],
          ret |-> "NC_NOERR"]

\* (mutant: define mode entered by redef is not told from that of a create)
NC4_redef_no_marker(h5) ==
    IF BitAnd(h5.flags, NC_INDEF) # {}
    THEN [h5 |-> h5, ret |-> "NC_EINDEFINE"]
    ELSE IF h5.no_write
         THEN [h5 |-> h5, ret |-> "NC_EPERM"]
         ELSE [h5 |-> [h5 EXCEPT !.flags = BitOr(@, NC_INDEF)], ret |-> "NC_NOERR"]

NC4_redef(h5) ==
    IF BitAnd(h5.flags, NC_INDEF) # {}
    THEN [h5 |-> h5, ret |-> "NC_EINDEFINE"]
    ELSE IF h5.no_write
         THEN [h5 |-> h5, ret |-> "NC_EPERM"]
         ELSE [h5 |-> [h5 EXCEPT !.flags = BitOr(@, NC_INDEF), !.redef = TRUE],
               ret |-> "NC_NOERR"]

\* (mutant: the mode is not checked)
nc4_enddef_netcdf4_file_no_check(h5, env, junk) ==
    sync_netcdf4_file(
        [h5 EXCEPT !.flags = BitXor(@, NC_INDEF), !.redef = FALSE], env, junk)

nc4_enddef_netcdf4_file(h5, env, junk) ==
    IF BitAnd(h5.flags, NC_INDEF) = {}
    THEN [h5 |-> h5, ret |-> "NC_ENOTINDEFINE", trace |-> <<>>]
    ELSE sync_netcdf4_file(
             [h5 EXCEPT !.flags = BitXor(@, NC_INDEF), !.redef = FALSE], env, junk)

\* the marking loop of NC4_enddef: a slot that is not NULL is skipped
MarkLoop(vs) == [i \in DOMAIN vs |->
                   IF ~vs[i].isnull THEN vs[i]
                   ELSE [vs[i] EXCEPT !.written_to = TRUE]]
\* the loop writes through every NULL slot it meets
DerefsNull(vs) == \E i \in DOMAIN vs : vs[i].isnull

NC4_enddef(h5, env, junk) ==
    IF DerefsNull(h5.vars)
    THEN [h5 |-> h5, ret |-> "SIGSEGV", trace |-> <<>>]
    ELSE nc4_enddef_netcdf4_file([h5 EXCEPT !.vars = MarkLoop(@)], env, junk)

NC4__enddef(h5, env, junk) == NC4_enddef(h5, env, junk)

\* (mutant: classic-model files leave define mode implicitly too)
NC4_sync_no_classic_check(h5, env1, env2, junk) ==
    IF BitAnd(h5.flags, NC_INDEF) # {}
    THEN LET e == NC4_enddef(h5, env1, junk)
             s == sync_netcdf4_file(e.h5, env2, junk)
         IN IF e.ret # "NC_NOERR" THEN e
            ELSE [h5 |-> s.h5, ret |-> s.ret, trace |-> e.trace \o s.trace]
    ELSE sync_netcdf4_file(h5, env2, junk)

NC4_sync(h5, env1, env2, junk) ==
    IF BitAnd(h5.flags, NC_INDEF) # {}
    THEN IF BitAnd(h5.cmode, NC_CLASSIC_MODEL) # {}
         THEN [h5 |-> h5, ret |-> "NC_EINDEFINE", trace |-> <<>>]
         ELSE LET e == NC4_enddef(h5, env1, junk)
                  s == sync_netcdf4_file(e.h5, env2, junk)
              IN IF e.ret # "NC_NOERR" THEN e
                 ELSE [h5 |-> s.h5, ret |-> s.ret, trace |-> e.trace \o s.trace]
    ELSE sync_netcdf4_file(h5, env2, junk)

\* strncpy(path, nc->path, NC_MAX_NAME) into char path[NC_MAX_NAME + 1], never
\* initialized: the name that remove() is then given. nul: the byte after
\* the copied characters happens to be 0.
strncpy_path(pathlen, nul) ==
    IF pathlen = "shorter" THEN "self"
    ELSE IF pathlen = "equal" /\ nul THEN "self"
    ELSE "other"

\* outcomes around NC4_abort: the close, the byte after the copy, remove()
AbortEnvs == {e \in [close : CloseEnvs, nul : BOOLEAN, rmok : BOOLEAN] :
                 e.close # GoodClose => (e.nul /\ e.rmok)}

NC4_abort(h5, pathlen, exists, env, junk) ==
    LET delete_file == BitAnd(h5.flags, NC_INDEF) # {} /\ ~h5.redef
        c == close_netcdf4_file(h5, TRUE, FALSE, env.close, junk)
        target == strncpy_path(pathlen, env.nul)
        removed == IF target = "self" THEN exists /\ env.rmok ELSE env.rmok
    IN IF c.ret # "NC_NOERR"
       THEN [h5 |-> c.h5, ret |-> c.ret, trace |-> c.trace, removed |-> "none"]
       ELSE IF ~delete_file
            THEN [h5 |-> c.h5, ret |-> "NC_NOERR", trace |-> c.trace, removed |-> "none"]
            ELSE IF removed
                 THEN [h5 |-> c.h5, ret |-> "NC_NOERR",
                       trace |-> Append(c.trace, "remove"), removed |-> target]
                 ELSE [h5 |-> c.h5, ret |-> "NC_ECANTREMOVE",
                       trace |-> Append(c.trace, "remove"), removed |-> "none"]

\* isroot: the ncid names the root group; params: the caller passed a
\* non-NULL NC_memio to fill in
NC4_close(h5, isroot, params, env, junk) ==
    LET inmemory == BitAnd(h5.cmode, NC_INMEMORY) = NC_INMEMORY
        c == close_netcdf4_file(h5, FALSE, inmemory, env, junk)
    IN IF ~isroot
       THEN [h5 |-> h5, ret |-> "NC_EBADGRPID", trace |-> <<>>]
       ELSE IF c.ret # "NC_NOERR"
            THEN c
            ELSE IF inmemory /\ params
                 THEN [c EXCEPT !.trace = Append(@, "read h5->mem.memio")]
                 ELSE c

(***************************************************************************)
(* Attribute names and the reserved-attribute table                        *)
(***************************************************************************)
\* "CLASS"
NC_ATT_CLASS == <<67, 76, 65, 83, 83>>
\* "DIMENSION_LIST"
NC_ATT_DIMENSION_LIST == <<68, 73, 77, 69, 78, 83, 73, 79, 78, 95, 76, 73, 83, 84>>
\* "NAME"
NC_ATT_NAME == <<78, 65, 77, 69>>
\* "REFERENCE_LIST"
NC_ATT_REFERENCE_LIST == <<82, 69, 70, 69, 82, 69, 78, 67, 69, 95, 76, 73, 83, 84>>
\* "_Format"
NC_ATT_FORMAT == <<95, 70, 111, 114, 109, 97, 116>>
\* "_IsNetcdf4"
ISNETCDF4ATT == <<95, 73, 115, 78, 101, 116, 99, 100, 102, 52>>
\* "_NCProperties"
NCPROPS == <<95, 78, 67, 80, 114, 111, 112, 101, 114, 116, 105, 101, 115>>
\* "_Netcdf4Coordinates"
NC_ATT_COORDINATES == <<95, 78, 101, 116, 99, 100, 102, 52, 67, 111, 111, 114, 100, 105, 110, 97, 116, 101, 115>>
\* "_Netcdf4Dimid"
NC_DIMID_ATT_NAME == <<95, 78, 101, 116, 99, 100, 102, 52, 68, 105, 109, 105, 100>>
\* "_SuperblockVersion"
SUPERBLOCKATT == <<95, 83, 117, 112, 101, 114, 98, 108, 111, 99, 107, 86, 101, 114, 115, 105, 111, 110>>
\* "_nc3_strict"
NC3_STRICT_ATT_NAME == <<95, 110, 99, 51, 95, 115, 116, 114, 105, 99, 116>>
\* names of ordinary attributes: "units", "_FillValue"
ATT_UNITS == <<117, 110, 105, 116, 115>>
ATT_FILLVALUE == <<95, 70, 105, 108, 108, 86, 97, 108, 117, 101>>

READONLYFLAG == {"READONLYFLAG"}
NAMEONLYFLAG == {"NAMEONLYFLAG"}
DIMSCALEFLAG == {"DIMSCALEFLAG"}

NRESERVED == 11

NC_reserved == <<
    [name |-> NC_ATT_CLASS, flags |-> BitOr(READONLYFLAG, DIMSCALEFLAG)],
    [name |-> NC_ATT_DIMENSION_LIST, flags |-> BitOr(READONLYFLAG, DIMSCALEFLAG)],
    [name |-> NC_ATT_NAME, flags |-> BitOr(READONLYFLAG, DIMSCALEFLAG)],
    [name |-> NC_ATT_REFERENCE_LIST, flags |-> BitOr(READONLYFLAG, DIMSCALEFLAG)],
    [name |-> NC_ATT_FORMAT, flags |-> READONLYFLAG],
    [name |-> ISNETCDF4ATT, flags |-> BitOr(READONLYFLAG, NAMEONLYFLAG)],
    [name |-> NCPROPS, flags |-> BitOr(READONLYFLAG, NAMEONLYFLAG)],
    [name |-> NC_ATT_COORDINATES, flags |-> BitOr(READONLYFLAG, DIMSCALEFLAG)],
    [name |-> NC_DIMID_ATT_NAME, flags |-> BitOr(READONLYFLAG, DIMSCALEFLAG)],
    [name |-> SUPERBLOCKATT, flags |-> BitOr(READONLYFLAG, NAMEONLYFLAG)],
    [name |-> NC3_STRICT_ATT_NAME, flags |-> READONLYFLAG]>>

\* strcmp over 0-terminated strings of unsigned chars: the sign of the
\* difference at the first position where the strings differ
RECURSIVE strcmp_at(_, _, _)
strcmp_at(a, b, i) ==
    LET ca == IF i <= Len(a) THEN a[i] ELSE 0
        cb == IF i <= Len(b) THEN b[i] ELSE 0
    IN IF ca # cb THEN (IF ca < cb THEN 0 - 1 ELSE 1)
       ELSE IF ca = 0 THEN 0
       ELSE strcmp_at(a, b, i + 1)

strcmp(a, b) == strcmp_at(a, b, 1)

\* the binary search of NC_findreserved over C indexes L..R; the result is
\* the position in NC_reserved of the entry found, 0 for NULL
RECURSIVE findreserved_loop(_, _, _)
findreserved_loop(name, L, R) ==
    IF L > R THEN 0
    ELSE LET m == (L + R) \div 2
             cmp == strcmp(NC_reserved[m + 1].name, name)
         IN IF cmp = 0 THEN m + 1
            ELSE IF cmp < 0 THEN findreserved_loop(name, m + 1, R)
            ELSE findreserved_loop(name, L, m - 1)

\* (mutant: the search never looks at the first entry of the table)
NC_findreserved_from_one(name) == findreserved_loop(name, 1, NRESERVED - 1)

\* (mutant: the search never looks at the last entry of the table)
NC_findreserved_short(name) == findreserved_loop(name, 0, NRESERVED - 2)

NC_findreserved(name) == findreserved_loop(name, 0, NRESERVED - 1)

(***************************************************************************)
(* Types: netCDF type ids, native HDF5 types, classification               *)
(***************************************************************************)
NC_NAT == 0
NC_BYTE == 1
NC_CHAR == 2
NC_SHORT == 3
NC_INT == 4
NC_FLOAT == 5
NC_DOUBLE == 6
NC_UBYTE == 7
NC_USHORT == 8
NC_UINT == 9
NC_INT64 == 10
NC_UINT64 == 11
NC_STRING == 12
NC_FIRSTUSERTYPEID == 32

NUM_TYPES == 12

\* C index t holds entry t + 1
nc_type_constant_g ==
    <<NC_CHAR, NC_BYTE, NC_SHORT, NC_INT, NC_FLOAT, NC_DOUBLE, NC_UBYTE,
      NC_USHORT, NC_UINT, NC_INT64, NC_UINT64, NC_STRING>>

\* sizeof on an LP64 platform
nc_type_size_g == <<1, 1, 2, 4, 4, 8, 1, 2, 4, 8, 8, 8>>

\* entries 1..10 of h5_native_type_constant_g (entries 0 and 11 are not
\* compared with H5Tequal)
h5_native_type_constant_g ==
    <<"H5T_C_S1", "H5T_NATIVE_SCHAR", "H5T_NATIVE_SHORT", "H5T_NATIVE_INT",
      "H5T_NATIVE_FLOAT", "H5T_NATIVE_DOUBLE", "H5T_NATIVE_UCHAR",
      "H5T_NATIVE_USHORT", "H5T_NATIVE_UINT", "H5T_NATIVE_LLONG",
      "H5T_NATIVE_ULLONG", "H5T_STRING">>

\* a native HDF5 type as the engine describes it: its class, whether it is a
\* variable-length string, its size, the native atomic type H5Tequal finds it
\* equal to ("none" if there is none), and for a committed type which one
NativeType(class, vstr, size, native, tid) ==
    [class |-> class, vstr |-> vstr, size |-> size, native |-> native, tid |-> tid]

AtomicType(class, native, size) == NativeType(class, FALSE, size, native, 0)
VarString == NativeType("H5T_STRING", TRUE, 8, "none", 0)
FixedString(size) == NativeType("H5T_STRING", FALSE, size, "none", 0)
UserType(class, tid) == NativeType(class, FALSE, 8, "none", tid)

H5Tequal(t, native) == t.native = native

\* the user-defined type of the file with this native type: its position in
\* the file's list of types, 0 if there is none
nc4_rec_find_hdf_type(types, t) ==
    IF t.tid # 0 /\ \E i \in DOMAIN types : types[i].tid = t.tid
    THEN CHOOSE i \in DOMAIN types :
             /\ types[i].tid = t.tid
             /\ \A j \in 1..(i - 1) : types[j].tid # t.tid
    ELSE 0

\* the H5Tequal tests of get_netcdf_type in the order they are made, each
\* with the type id it gives
NativeChain ==
    <<<<"H5T_NATIVE_SCHAR", NC_BYTE>>, <<"H5T_NATIVE_SHORT", NC_SHORT>>,
      <<"H5T_NATIVE_INT", NC_INT>>, <<"H5T_NATIVE_FLOAT", NC_FLOAT>>,
      <<"H5T_NATIVE_DOUBLE", NC_DOUBLE>>, <<"H5T_NATIVE_UCHAR", NC_UBYTE>>,
      <<"H5T_NATIVE_USHORT", NC_USHORT>>, <<"H5T_NATIVE_UINT", NC_UINT>>,
      <<"H5T_NATIVE_LLONG", NC_INT64>>, <<"H5T_NATIVE_ULLONG", NC_UINT64>>>>

RECURSIVE native_chain_from(_, _)
native_chain_from(t, i) ==
    IF i > Len(NativeChain) THEN NC_NAT
    ELSE IF H5Tequal(t, NativeChain[i][1]) THEN NativeChain[i][2]
    ELSE native_chain_from(t, i + 1)

get_netcdf_type(types, t) ==
    IF t.class = "H5T_STRING"
    THEN [ret |-> "NC_NOERR", xtype |-> IF t.vstr THEN NC_STRING ELSE NC_CHAR]
    ELSE LET x == IF t.class \in {"H5T_INTEGER", "H5T_FLOAT"}
                  THEN native_chain_from(t, 1) ELSE NC_NAT
             type == nc4_rec_find_hdf_type(types, t)
         IN IF x # NC_NAT THEN [ret |-> "NC_NOERR", xtype |-> x]
            ELSE IF type # 0
                 THEN [ret |-> "NC_NOERR", xtype |-> types[type].id]
                 ELSE [ret |-> "NC_EBADTYPID", xtype |-> NC_NAT]

\* one user-defined type as the file's type list holds it: its netCDF type
\* id, the committed HDF5 type it was read from, its class and its size
TypeInfo(id, tid, class, size) ==
    [id |-> id, tid |-> tid, class |-> class, size |-> size]

NoType == TypeInfo(NC_NAT, 0, "none", 0)

Orders == {"H5T_ORDER_LE", "H5T_ORDER_BE", "H5T_ORDER_VAX"}

\* the result of get_type_info2: the return code; for a user-defined type
\* the position in the file's type list of the record handed back (type);
\* for an atomic type the record allocated for this call (phony); and the
\* file's type list after the call
TypeResult(ret, type, phony, types) ==
    [ret |-> ret, type |-> type, phony |-> phony, types |-> types]

\* the C index t at which the loop over h5_native_type_constant_g stops
RECURSIVE native_loop(_, _)
native_loop(t, i) ==
    IF i >= NUM_TYPES - 1 THEN i
    ELSE IF H5Tequal(t, h5_native_type_constant_g[i + 1]) THEN i
    ELSE native_loop(t, i + 1)

\* (mutant: a user-defined type gets a record of its own at every call)
get_type_info2_new_record(types, t, order) ==
    IF t.class \in {"H5T_STRING", "H5T_INTEGER", "H5T_FLOAT"}
    THEN TypeResult("NC_NOERR", 0, TypeInfo(NC_INT, 0, "NC_INT", 4), types)
    ELSE LET type == nc4_rec_find_hdf_type(types, t)
         IN IF type # 0
            THEN TypeResult("NC_NOERR", Len(types) + 1, NoType,
                            Append(types, types[type]))
            ELSE TypeResult("NC_EBADTYPID", 0, NoType, types)

get_type_info2(types, t, order) ==
    IF t.class \in {"H5T_STRING", "H5T_INTEGER", "H5T_FLOAT"}
    THEN IF t.class = "H5T_STRING"
         THEN IF t.vstr \/ t.size > 1
              THEN TypeResult("NC_NOERR", 0,
                              TypeInfo(nc_type_constant_g[NUM_TYPES],
                                       0, "NC_STRING", nc_type_size_g[NUM_TYPES]),
                              types)
              ELSE TypeResult("NC_NOERR", 0,
                              TypeInfo(nc_type_constant_g[1], 0, "NC_CHAR",
                                       nc_type_size_g[1]),
                              types)
         ELSE LET t_ == native_loop(t, 1)
              IN IF order \notin {"H5T_ORDER_LE", "H5T_ORDER_BE"}
                 THEN TypeResult("NC_EBADTYPE", 0, NoType, types)
                 ELSE TypeResult("NC_NOERR", 0,
                                 TypeInfo(nc_type_constant_g[t_ + 1], 0,
                                          IF t.class = "H5T_INTEGER"
                                          THEN "NC_INT" ELSE "NC_FLOAT",
                                          nc_type_size_g[t_ + 1]),
                                 types)
    ELSE LET type == nc4_rec_find_hdf_type(types, t)
         IN IF type # 0
            THEN TypeResult("NC_NOERR", type, NoType, types)
            ELSE TypeResult("NC_EBADTYPID", 0, NoType, types)

\* the size in memory of one value of a type
nc4_get_typelen_mem(types, xtype) ==
    IF xtype < NC_FIRSTUSERTYPEID
    THEN nc_type_size_g[CHOOSE t \in 1..NUM_TYPES : nc_type_constant_g[t] = xtype]
    ELSE (CHOOSE ty \in {types[i] : i \in DOMAIN types} : ty.id = xtype).size

(***************************************************************************)
(* Reading the type, length and value of one attribute                     *)
(***************************************************************************)
NullSpace == [cls |-> "H5S_NULL", dims |-> <<>>]
ScalarSpace == [cls |-> "H5S_SCALAR", dims |-> <<>>]
SimpleSpace(dims) == [cls |-> "H5S_SIMPLE", dims |-> dims]

H5Sget_simple_extent_ndims(space) == Len(space.dims)

RECURSIVE Product(_)
Product(dims) == IF dims = <<>> THEN 1 ELSE Head(dims) * Product(Tail(dims))

H5Sget_simple_extent_npoints(space) ==
    IF space.cls = "H5S_NULL" THEN 0 ELSE Product(space.dims)

\* the value buffers an attribute can hold: data (one block of bytes),
\* stdata (one pointer per string, each string with its own block; bufs gives
\* the bytes malloc'ed for each, 0 where the engine allocated it), vldata
NoBuf == [kind |-> "none", bytes |-> 0, bufs |-> <<>>]
DataBuf(bytes) == [kind |-> "data", bytes |-> bytes, bufs |-> <<>>]
VlBuf(bytes) == [kind |-> "vldata", bytes |-> bytes, bufs |-> <<>>]
StBuf(n, each) == [kind |-> "stdata", bytes |-> 0, bufs |-> [i \in 1..n |-> each]]

AttFails == {"none", "H5Tget_native_type", "H5Aread"}

AttResult(ret, nc_typeid, len, buf) ==
    [ret |-> ret, nc_typeid |-> nc_typeid, len |-> len, buf |-> buf]

\* (mutant: the dataspace is asked for its extent before its rank and its
\* class are looked at)
read_hdf5_att_extent_first(types, a) ==
    LET t == a.type
        g == get_netcdf_type(types, t)
        ndims == H5Sget_simple_extent_ndims(a.space)
        dim0 == IF ndims = 0 THEN 1 ELSE a.space.dims[1]
    IN IF a.fail = "H5Tget_native_type" THEN AttResult("NC_EHDFERR", NC_NAT, 0, NoBuf)
       ELSE IF g.ret # "NC_NOERR" THEN AttResult(g.ret, g.xtype, 0, NoBuf)
       ELSE IF dim0 = 0 THEN AttResult("NC_NOERR", g.xtype, 0, NoBuf)
       ELSE IF a.fail = "H5Aread" THEN AttResult("NC_EATTMETA", g.xtype, dim0, NoBuf)
       ELSE AttResult("NC_NOERR", g.xtype, dim0,
                      DataBuf(dim0 * nc4_get_typelen_mem(types, g.xtype)))

\* (mutant: a fixed-length string keeps the char type whatever its rank)
read_hdf5_att_text_stays_char(types, a) ==
    LET t == a.type
        g == get_netcdf_type(types, t)
        npoints == H5Sget_simple_extent_npoints(a.space)
        len == IF g.xtype = NC_CHAR THEN t.size * npoints ELSE npoints
    IN IF a.fail = "H5Tget_native_type" THEN AttResult("NC_EHDFERR", NC_NAT, 0, NoBuf)
       ELSE IF g.ret # "NC_NOERR" THEN AttResult(g.ret, g.xtype, 0, NoBuf)
       ELSE IF len = 0 THEN AttResult("NC_NOERR", g.xtype, 0, NoBuf)
       ELSE IF a.fail = "H5Aread" THEN AttResult("NC_EATTMETA", g.xtype, len, NoBuf)
       ELSE AttResult("NC_NOERR", g.xtype, len,
                      DataBuf(len * nc4_get_typelen_mem(types, g.xtype)))

\* the type id and the length of the attribute, or the error that ends the
\* read before any value is read
att_len(t, space, xtype) ==
    LET att_ndims == H5Sget_simple_extent_ndims(space)
        att_npoints == H5Sget_simple_extent_npoints(space)
    IN IF att_ndims = 0 /\ att_npoints = 0
       THEN [ret |-> "NC_NOERR", xtype |-> xtype, len |-> 0]
       ELSE IF xtype = NC_STRING
       THEN [ret |-> "NC_NOERR", xtype |-> xtype, len |-> att_npoints]
       ELSE IF xtype = NC_CHAR
       THEN IF att_ndims = 0
            THEN IF t.size = 0
                 THEN [ret |-> "NC_EATTMETA", xtype |-> xtype, len |-> 0]
                 ELSE [ret |-> "NC_NOERR", xtype |-> xtype, len |-> t.size]
            ELSE [ret |-> "NC_NOERR", xtype |-> NC_STRING, len |-> att_npoints]
       ELSE IF att_ndims > 1
            THEN [ret |-> "NC_EATTMETA", xtype |-> xtype, len |-> 0]
            ELSE IF space.cls = "H5S_NULL"
                 THEN [ret |-> "NC_EATTMETA", xtype |-> xtype, len |-> 0]
                 ELSE IF space.cls = "H5S_SCALAR"
                      THEN [ret |-> "NC_NOERR", xtype |-> xtype, len |-> 1]
                      ELSE [ret |-> "NC_NOERR", xtype |-> xtype,
                            len |-> space.dims[1]]

\* the buffers allocated for len values of the type and the reading of the
\* values into them
att_value(a, xtype, len, type_size) ==
    LET t == a.type
        fixed_size == IF t.class = "H5T_STRING" /\ ~t.vstr THEN t.size ELSE 0
    IN IF len = 0
       THEN AttResult("NC_NOERR", xtype, 0, NoBuf)
       ELSE IF a.fail = "H5Aread"
       THEN AttResult("NC_EATTMETA", xtype, len,
                      IF t.class = "H5T_VLEN" THEN VlBuf(len * 16)
                      ELSE IF xtype = NC_STRING
                           THEN StBuf(len, 0)
                           ELSE DataBuf(len * type_size))
       ELSE IF t.class = "H5T_VLEN"
       THEN AttResult("NC_NOERR", xtype, len, VlBuf(len * 16))
       ELSE IF xtype = NC_STRING
       THEN AttResult("NC_NOERR", xtype, len, StBuf(len, fixed_size))
       ELSE AttResult("NC_NOERR", xtype, len, DataBuf(len * type_size))

att_after_len(types, a, lenpart) ==
    IF lenpart.ret # "NC_NOERR"
    THEN AttResult(lenpart.ret, lenpart.xtype, 0, NoBuf)
    ELSE att_value(a, lenpart.xtype, lenpart.len,
                   nc4_get_typelen_mem(types, lenpart.xtype))

att_after_type(types, a, g) ==
    IF g.ret # "NC_NOERR"
    THEN AttResult(g.ret, g.xtype, 0, NoBuf)
    ELSE att_after_len(types, a, att_len(a.type, a.space, g.xtype))

read_hdf5_att(types, a) ==
    IF a.fail = "H5Tget_native_type"
    THEN AttResult("NC_EHDFERR", NC_NAT, 0, NoBuf)
    ELSE IF a.type.class = "H5T_STRING" /\ ~a.type.vstr /\ a.type.size = 0
    THEN AttResult("NC_EATTMETA", NC_NAT, 0, NoBuf)
    ELSE att_after_type(types, a, get_netcdf_type(types, a.type))

(***************************************************************************)
(* The metadata walk of an opened file                                     *)
(***************************************************************************)
\* one link of a group as the file stores it: a dataset (its native type,
\* whether it is a dimension scale, the value of its stored dimension id,
\* -1 if it has none, and the engine call that fails on it), a named type
\* (its native type and the type of its members or its base type), or a
\* group (its links in the order H5Literate visits them)
StoredObj(kind, type, base, scale, dimid, fail, links) ==
    [kind |-> kind, type |-> type, base |-> base, scale |-> scale,
     dimid |-> dimid, fail |-> fail, links |-> links]

NoNative == NativeType("none", FALSE, 0, "none", 0)
StoredDataset(type, scale, dimid, fail) ==
    StoredObj("H5G_DATASET", type, NoNative, scale, dimid, fail, <<>>)
StoredType(type, base) ==
    StoredObj("H5G_TYPE", type, base, FALSE, 0 - 1, "none", <<>>)
StoredGroup(links) ==
    StoredObj("H5G_GROUP", NoNative, NoNative, FALSE, 0 - 1, "none", links)

\* the metadata of a file in memory: the user-defined types, variables,
\* dimensions and groups read so far (each with the path of the link it was
\* read from, a path being the link numbers from the root group down), the
\* counters for new ids, and the log of what the walk did
NewMeta(no_write, tracked) ==
    [types |-> <<>>, typepaths |-> <<>>, vars |-> <<>>, dims |-> <<>>,
     grps |-> <<>>, next_dimid |-> 0, next_typeid |-> NC_FIRSTUSERTYPEID,
     no_write |-> no_write, tracked |-> tracked, trace |-> <<>>]

Event(ev, path, ret) == [ev |-> ev, path |-> path, ret |-> ret]
Log(m, ev, path, ret) == [m EXCEPT !.trace = Append(@, Event(ev, path, ret))]

\* a new dimension: the id is the one handed in if there is one, the next
\* free one otherwise
nc4_dim_list_add(m, path, assigned_id) ==
    IF assigned_id >= 0
    THEN [m EXCEPT !.dims = Append(@, [path |-> path, id |-> assigned_id])]
    ELSE [m EXCEPT !.dims = Append(@, [path |-> path, id |-> m.next_dimid]),
                   !.next_dimid = @ + 1]

\* a new user-defined type gets the next free type id
nc4_type_list_add(m, path, t, class) ==
    [m EXCEPT !.types = Append(@, TypeInfo(m.next_typeid, t.tid, class, t.size)),
              !.typepaths = Append(@, path),
              !.next_typeid = @ + 1]

\* (mutant: a stored id does not move the file's next-id counter)
read_scale_keeps_counter(m, path, o) ==
    IF o.dimid >= 0 /\ o.fail = "H5Aread"
    THEN [m |-> m, ret |-> "NC_EHDFERR"]
    ELSE [m |-> nc4_dim_list_add(m, path, o.dimid), ret |-> "NC_NOERR"]

\* the value an int has after it went through a short
ToShort(n) == ((n + 32768) % 65536) - 32768

\* the new dimension is taken out of the list again
nc4_dim_list_del(m) == [m EXCEPT !.dims = SubSeq(@, 1, Len(@) - 1)]

\* fail names the step that fails: reading the stored id, creating the
\* dimension, or finding the length of an unlimited dimension that has no
\* variable. The recovery at the exit runs only if the dimension was
\* created, and what it returns is the result of nc4_dim_list_del
read_scale(m, path, o) ==
    IF o.dimid >= 0 /\ o.fail = "H5Aread"
    THEN [m |-> m, ret |-> "NC_EHDFERR"]
    ELSE LET assigned_id == o.dimid
             initial_next_dimid == ToShort(m.next_dimid)
             m1 == IF assigned_id >= m.next_dimid
                   THEN [m EXCEPT !.next_dimid = assigned_id + 1]
                   ELSE m
         IN IF o.fail = "nc4_dim_list_add"
            THEN [m |-> m1, ret |-> "NC_ENOMEM"]
            ELSE IF o.fail = "nc4_find_dim_len"
            THEN [m |-> [nc4_dim_list_del(nc4_dim_list_add(m1, path, assigned_id))
                            EXCEPT !.next_dimid = initial_next_dimid],
                  ret |-> "NC_NOERR"]
            ELSE [m |-> nc4_dim_list_add(m1, path, assigned_id), ret |-> "NC_NOERR"]

\* the variable is added to the group; if its type cannot be had it is
\* taken out of the group again
read_var(m, path, o) ==
    LET r == get_type_info2(m.types, o.type, "H5T_ORDER_LE")
    IN IF r.ret # "NC_NOERR"
       THEN [m |-> m, ret |-> r.ret]
       ELSE [m |-> [m EXCEPT !.vars =
                        Append(@, [path |-> path,
                                   xtype |-> IF r.type # 0 THEN m.types[r.type].id
                                             ELSE r.phony.id,
                                   type |-> r.type])],
             ret |-> "NC_NOERR"]

read_dataset(m, path, o) ==
    IF o.fail = "H5Dget_space"
    THEN [m |-> m, ret |-> "NC_EHDFERR"]
    ELSE LET s == IF o.scale THEN read_scale(m, path, o)
                  ELSE [m |-> m, ret |-> "NC_NOERR"]
         IN IF s.ret # "NC_NOERR" THEN s
            ELSE read_var(s.m, path, o)

\* the record of the type is added to the group before its members or its
\* base type are classified, and stays there if that fails
read_type(m, path, o) ==
    IF o.type.size = 0
    THEN [m |-> m, ret |-> "NC_EHDFERR"]
    ELSE IF o.type.class = "H5T_OPAQUE"
    THEN [m |-> nc4_type_list_add(m, path, o.type, "NC_OPAQUE"), ret |-> "NC_NOERR"]
    ELSE IF o.type.class \in {"H5T_COMPOUND", "H5T_VLEN", "H5T_ENUM"}
    THEN LET class == IF o.type.class = "H5T_COMPOUND" THEN "NC_COMPOUND"
                      ELSE IF o.type.class = "H5T_VLEN" THEN "NC_VLEN"
                      ELSE "NC_ENUM"
             m1 == nc4_type_list_add(m, path, o.type, class)
         IN [m |-> m1, ret |-> get_netcdf_type(m1.types, o.base).ret]
    ELSE IF o.type.class = "H5T_STRING"
    THEN [m |-> nc4_type_list_add(m, path, o.type, "NC_STRING"), ret |-> "NC_NOERR"]
    ELSE [m |-> nc4_type_list_add(m, path, o.type, "none"), ret |-> "NC_EBADCLASS"]

\* the callback of H5Literate for link i of the group at path: the metadata
\* and the list of groups found so far, after the call, and what the
\* callback returns
nc4_rec_read_metadata_cb(m, path, i, o, grps) ==
    LET p == Append(path, i)
    IN IF o.kind = "H5G_GROUP"
       THEN [m |-> Log(m, "queued", p, "NC_NOERR"), grps |-> Append(grps, i),
             ret |-> "H5_ITER_CONT"]
       ELSE IF o.kind = "H5G_DATASET"
       THEN LET r == read_dataset(m, p, o)
            IN [m |-> Log(r.m, "read_dataset", p, r.ret), grps |-> grps,
                ret |-> IF r.ret \in {"NC_NOERR", "NC_EBADTYPID"}
                        THEN "H5_ITER_CONT" ELSE "H5_ITER_ERROR"]
       ELSE LET r == read_type(m, p, o)
            IN [m |-> Log(r.m, "read_type", p, r.ret), grps |-> grps,
                ret |-> IF r.ret = "NC_NOERR"
                        THEN "H5_ITER_CONT" ELSE "H5_ITER_ERROR"]

\* H5Literate from link i on: it stops at the first callback that fails
RECURSIVE H5Literate(_, _, _, _, _)
H5Literate(m, path, links, i, grps) ==
    IF i > Len(links) THEN [m |-> m, grps |-> grps, ret |-> "H5_ITER_CONT"]
    ELSE LET c == nc4_rec_read_metadata_cb(m, path, i, links[i], grps)
         IN IF c.ret # "H5_ITER_CONT" THEN c
            ELSE H5Literate(c.m, path, links, i + 1, c.grps)

RECURSIVE nc4_rec_read_metadata(_, _, _)

\* the loop over the child groups found, from the j-th found on
RECURSIVE read_child_grps(_, _, _, _, _)
read_child_grps(m, path, links, grps, j) ==
    IF j > Len(grps) THEN [m |-> m, ret |-> "NC_NOERR"]
    ELSE LET p == Append(path, grps[j])
             m1 == Log([m EXCEPT !.grps = Append(@, p)], "nc4_grp_list_add", p,
                       "NC_NOERR")
             r == nc4_rec_read_metadata(m1, p, links[grps[j]].links)
         IN IF r.ret # "NC_NOERR" THEN r
            ELSE read_child_grps(Log(r.m, "H5Oclose", p, "NC_NOERR"), path,
                                 links, grps, j + 1)

\* the clean-up at the exit of nc4_rec_read_metadata: after an error the
\* object of every queued group is closed, from the j-th queued on
RECURSIVE close_queued(_, _, _, _)
close_queued(m, path, grps, j) ==
    IF j > Len(grps) THEN m
    ELSE close_queued(Log(m, "H5Oclose", Append(path, grps[j]), "NC_NOERR"),
                      path, grps, j + 1)

\* the exit of nc4_rec_read_metadata after the loop over the child groups
\* ended with c
rec_read_metadata_exit(c, path, grps) ==
    IF c.ret # "NC_NOERR"
    THEN [m |-> close_queued(c.m, path, grps, 1), ret |-> c.ret]
    ELSE c

\* the positions of the links that are groups, in link order
GroupLinks(links) ==
    LET RECURSIVE from(_)
        from(i) == IF i > Len(links) THEN <<>>
                   ELSE IF links[i].kind = "H5G_GROUP" THEN <<i>> \o from(i + 1)
                   ELSE from(i + 1)
    IN from(1)

\* (mutant: the child groups are read before the other links of the group)
nc4_rec_read_metadata_children_first(m, path, links) ==
    LET c == read_child_grps(m, path, links, GroupLinks(links), 1)
        it == H5Literate(c.m, path, links, 1, <<>>)
    IN IF c.ret # "NC_NOERR"
       THEN rec_read_metadata_exit(c, path, GroupLinks(links))
       ELSE IF it.ret # "H5_ITER_CONT" THEN [m |-> it.m, ret |-> "NC_EHDFERR"]
       ELSE [m |-> it.m, ret |-> "NC_NOERR"]

nc4_rec_read_metadata(m, path, links) ==
    IF ~m.tracked /\ ~m.no_write
    THEN [m |-> m, ret |-> "NC_ECANTWRITE"]
    ELSE LET it == H5Literate(m, path, links, 1, <<>>)
         IN IF it.ret # "H5_ITER_CONT"
            THEN [m |-> close_queued(it.m, path, it.grps, 1),
                  ret |-> "NC_EHDFERR"]
            ELSE rec_read_metadata_exit(
                     read_child_grps(it.m, path, links, it.grps, 1), path,
                     it.grps)

(***************************************************************************)
(* Reading attributes                                                      *)
(***************************************************************************)
\* what is stored for one attribute: its name and how read_hdf5_att fares
\* on its type and value
AttClasses == {"ok", "badtype", "corrupt"}

\* an attribute of each class: an int scalar, a long double scalar, and one
\* whose native type the engine fails to give
StoredOfClass(cls) ==
    IF cls = "ok"
    THEN [type |-> AtomicType("H5T_INTEGER", "H5T_NATIVE_INT", 4),
          space |-> ScalarSpace, fail |-> "none"]
    ELSE IF cls = "badtype"
         THEN [type |-> AtomicType("H5T_FLOAT", "none", 16),
               space |-> ScalarSpace, fail |-> "none"]
         ELSE [type |-> AtomicType("H5T_INTEGER", "H5T_NATIVE_INT", 4),
               space |-> ScalarSpace, fail |-> "H5Tget_native_type"]

\* what read_hdf5_att returns for the attribute of each class
AttRet == [cls \in AttClasses |-> read_hdf5_att(<<>>, StoredOfClass(cls)).ret]

nc4_att_list_add(list, name) == Append(list, [name |-> name, created |-> FALSE])
\* the record added last is taken out again
nc4_att_list_del(list) == SubSeq(list, 1, Len(list) - 1)
MarkCreated(list) == [list EXCEPT ![Len(list)].created = TRUE]

\* (mutant: the record of an attribute of no netCDF type stays in the list)
att_read_var_callbk_keeps_record(list, a) ==
    IF NC_findreserved(a.name) # 0
    THEN [att |-> list, ret |-> "NC_NOERR"]
    ELSE LET added == nc4_att_list_add(list, a.name)
             r == AttRet[a.cls]
         IN IF r \in {"NC_NOERR", "NC_EBADTYPID"}
            THEN [att |-> MarkCreated(added), ret |-> "NC_NOERR"]
            ELSE [att |-> added, ret |-> r]

att_read_var_callbk(list, a) ==
    IF NC_findreserved(a.name) # 0
    THEN [att |-> list, ret |-> "NC_NOERR"]
    ELSE LET added == nc4_att_list_add(list, a.name)
             r == AttRet[a.cls]
         IN IF r = "NC_NOERR" THEN [att |-> MarkCreated(added), ret |-> "NC_NOERR"]
            ELSE IF r = "NC_EBADTYPID"
                 THEN [att |-> nc4_att_list_del(added), ret |-> "NC_NOERR"]
                 ELSE [att |-> added, ret |-> r]

\* H5Aiterate2 in creation order: it stops at the first callback that fails
RECURSIVE H5Aiterate2(_, _, _)
H5Aiterate2(stored, i, list) ==
    IF i > Len(stored) THEN [att |-> list, ret |-> "NC_NOERR"]
    ELSE LET c == att_read_var_callbk(list, stored[i])
         IN IF c.ret # "NC_NOERR" THEN c
            ELSE H5Aiterate2(stored, i + 1, c.att)

nc4_read_var_atts(o) ==
    LET it == H5Aiterate2(o.stored, 1, o.att)
    IN IF it.ret # "NC_NOERR"
       THEN [o EXCEPT !.att = it.att, !.ret = "NC_EATTMETA"]
       ELSE [o EXCEPT !.att = it.att, !.atts_not_read = FALSE, !.ret = "NC_NOERR"]

\* the loop of nc4_read_grp_atts from attribute i on
RECURSIVE read_grp_atts_loop(_, _)
read_grp_atts_loop(o, i) ==
    IF i > Len(o.stored)
    THEN [o EXCEPT !.atts_not_read = FALSE, !.ret = "NC_NOERR"]
    ELSE LET a == o.stored[i]
             ra == IF o.kind = "rootgrp" THEN NC_findreserved(a.name) ELSE 0
             hidden == ra # 0 /\ BitAnd(NC_reserved[ra].flags, NAMEONLYFLAG) # {}
             added == nc4_att_list_add(o.att, a.name)
             r == AttRet[a.cls]
         IN IF strcmp(a.name, NC3_STRICT_ATT_NAME) = 0
            THEN read_grp_atts_loop(
                     [o EXCEPT !.cmode = BitOr(@, NC_CLASSIC_MODEL)], i + 1)
            ELSE IF hidden
                 THEN read_grp_atts_loop(o, i + 1)
                 ELSE IF r = "NC_EBADTYPID"
                      THEN read_grp_atts_loop(
                               [o EXCEPT !.att = nc4_att_list_del(added)], i + 1)
                      ELSE IF r # "NC_NOERR"
                           THEN [o EXCEPT !.att = added, !.ret = r]
                           ELSE read_grp_atts_loop(
                                    [o EXCEPT !.att = MarkCreated(added)], i + 1)

nc4_read_grp_atts(o) == read_grp_atts_loop(o, 1)

\* NC4_inq asked for the attribute count of a group: the object after the
\* call and the count handed back (the count is left alone on an error)
NC4_inq(o, nattsp, count) ==
    LET r == IF nattsp /\ o.atts_not_read THEN nc4_read_grp_atts(o)
             ELSE [o EXCEPT !.ret = "NC_NOERR"]
    IN IF ~nattsp \/ r.ret # "NC_NOERR"
       THEN [obj |-> r, natts |-> count]
       ELSE [obj |-> r, natts |-> Len(r.att)]

(***************************************************************************)
(* The lifecycle of one file: specification Spec                           *)
(***************************************************************************)
LifeSlots == {1}

NoCall ==
    [op |-> "none", f |-> 0, ret |-> "NC_NOERR", pre |-> ClosedFile,
     preCache |-> CacheCfg(0, 0, 0), preStored |-> FALSE, trace |-> <<>>,
     removed |-> "none", prevOp |-> "none", prevRet |-> "NC_NOERR",
     args |-> <<>>]

Call(op, f, ret, trace, removed, args) ==
    [op |-> op, f |-> f, ret |-> ret, pre |-> files[f],
     preCache |-> nc4_chunk_cache, preStored |-> storage[f], trace |-> trace,
     removed |-> removed, prevOp |-> last.op, prevRet |-> last.ret,
     args |-> args]

AttIdle == [kind |-> "none", stored |-> <<>>, att |-> <<>>, atts_not_read |-> FALSE,
            cmode |-> {}, ret |-> "NC_NOERR"]

\* the value an uninitialized retval holds matters only to a sync that
\* skips the write steps
JunkFor(h5) ==
    IF BitAnd(h5.cmode, NC_NOWRITE) = {} THEN {"NC_NOERR"} ELSE Indeterminate

Init ==
    /\ nc4_chunk_cache \in BuildDefaults
    /\ files = [f \in Slots |-> ClosedFile]
    /\ paths \in {p \in [Slots -> PathLens] :
                     \A f \in Slots \ LifeSlots : p[f] = "shorter"}
    /\ storage \in {s \in [Slots -> BOOLEAN] :
                       \A f \in Slots \ LifeSlots : ~s[f]}
    /\ last = NoCall
    /\ obj = AttIdle
    /\ natts = 0

CreateFails == {"ok", "H5Fcreate", "fileinfo"}
OpenFails == {"ok", "H5Fopen", "metadata"}

Create(f) ==
    /\ ~files[f].open
    /\ \E cmode \in UserModes, deffmt \in DefaultFormats, fail \in CreateFails :
         LET r == NC4_create(cmode, deffmt, nc4_chunk_cache, fail)
         IN /\ files' = [files EXCEPT ![f] = r.h5]
            /\ storage' = [storage EXCEPT ![f] = IF r.made THEN TRUE ELSE @]
            /\ last' = Call("NC4_create", f, r.ret, <<>>, "none", <<cmode, deffmt>>)
    /\ UNCHANGED <<nc4_chunk_cache, paths, obj, natts>>

Open(f) ==
    /\ ~files[f].open
    /\ \E mode \in UserModes, nvars \in 0..MaxVars, is_classic \in BOOLEAN,
          fail \in OpenFails :
         /\ (fail = "ok") => (storage[f] \/ BitAnd(mode, NC_INMEMORY) # {})
         /\ LET r == NC4_open(mode, nc4_chunk_cache, nvars, is_classic, fail)
            IN /\ files' = [files EXCEPT ![f] = r.h5]
               /\ last' = Call("NC4_open", f, r.ret, <<>>, "none", <<mode>>)
    /\ UNCHANGED <<nc4_chunk_cache, paths, storage, obj, natts>>

Redef(f) ==
    /\ files[f].open
    /\ LET r == NC4_redef(files[f])
       IN /\ files' = [files EXCEPT ![f] = r.h5]
          /\ last' = Call("NC4_redef", f, r.ret, <<>>, "none", <<>>)
    /\ UNCHANGED <<nc4_chunk_cache, paths, storage, obj, natts>>

Enddef(f) ==
    /\ files[f].open
    /\ \E env \in SyncEnvs, junk \in JunkFor(files[f]) :
         LET r == NC4__enddef(files[f], env, junk)
         IN /\ files' = [files EXCEPT ![f] = r.h5]
            /\ last' = Call("NC4__enddef", f, r.ret, r.trace, "none", <<>>)
    /\ UNCHANGED <<nc4_chunk_cache, paths, storage, obj, natts>>

Sync(f) ==
    /\ files[f].open
    /\ \E envs \in {e \in SyncEnvs \X SyncEnvs : e[1] # GoodSync => e[2] = GoodSync},
          junk \in JunkFor(files[f]) :
         LET r == NC4_sync(files[f], envs[1], envs[2], junk)
         IN /\ files' = [files EXCEPT ![f] = r.h5]
            /\ last' = Call("NC4_sync", f, r.ret, r.trace, "none", <<>>)
    /\ UNCHANGED <<nc4_chunk_cache, paths, storage, obj, natts>>

Abort(f) ==
    /\ files[f].open
    /\ \E env \in AbortEnvs, junk \in JunkFor(files[f]) :
         LET r == NC4_abort(files[f], paths[f], storage[f], env, junk)
         IN /\ files' = [files EXCEPT ![f] = r.h5]
            /\ storage' = [storage EXCEPT ![f] = IF r.removed = "self" THEN FALSE ELSE @]
            /\ last' = Call("NC4_abort", f, r.ret, r.trace, r.removed, <<>>)
    /\ UNCHANGED <<nc4_chunk_cache, paths, obj, natts>>

Close(f) ==
    /\ files[f].open
    /\ \E isroot \in BOOLEAN, params \in BOOLEAN, env \in CloseEnvs,
          junk \in JunkFor(files[f]) :
         LET r == NC4_close(files[f], isroot, params, env, junk)
         IN /\ files' = [files EXCEPT ![f] = r.h5]
            /\ last' = Call("NC4_close", f, r.ret, r.trace, "none", <<isroot, params>>)
    /\ UNCHANGED <<nc4_chunk_cache, paths, storage, obj, natts>>

Next ==
    \E f \in LifeSlots :
        \/ Create(f)
        \/ Open(f)
        \/ Redef(f)
        \/ Enddef(f)
        \/ Sync(f)
        \/ Abort(f)
        \/ Close(f)

Spec == Init /\ [][Next]_vars

(***************************************************************************)
(* The chunk-cache defaults and the files that capture them:               *)
(* specification SpecCache                                                 *)
(***************************************************************************)
\* (this specification does not record the call before the last one)
GlobalCall(op, ret, args) ==
    [NoCall EXCEPT !.op = op, !.ret = ret, !.args = args]

FileCall(op, f, ret, args) ==
    [NoCall EXCEPT !.op = op, !.f = f, !.ret = ret, !.args = args]

InitCache ==
    /\ nc4_chunk_cache \in BuildDefaults
    /\ files = [f \in Slots |-> ClosedFile]
    /\ paths = [f \in Slots |-> "shorter"]
    /\ storage = [f \in Slots |-> TRUE]
    /\ last = NoCall
    /\ obj = AttIdle
    /\ natts = 0

SetChunkCache ==
    /\ \E size \in SizeArgs, nelems \in NelemsArgs, preemption \in FloatArgs :
         LET r == nc_set_chunk_cache(nc4_chunk_cache, size, nelems, preemption)
         IN /\ nc4_chunk_cache' = r.cache
            /\ last' = GlobalCall("nc_set_chunk_cache", r.ret, <<size, nelems, preemption>>)
    /\ UNCHANGED <<files, paths, storage, obj, natts>>

SetChunkCacheInts ==
    /\ \E size \in IntArgs, nelems \in NelemsArgs, preemption \in PctArgs :
         LET r == nc_set_chunk_cache_ints(nc4_chunk_cache, size, nelems, preemption)
         IN /\ nc4_chunk_cache' = r.cache
            /\ last' = GlobalCall("nc_set_chunk_cache_ints", r.ret, <<size, nelems, preemption>>)
    /\ UNCHANGED <<files, paths, storage, obj, natts>>

CacheCreate(f) ==
    /\ ~files[f].open
    /\ LET r == NC4_create({}, "NC_FORMAT_NETCDF4", nc4_chunk_cache, "ok")
       IN /\ files' = [files EXCEPT ![f] = r.h5]
          /\ storage' = [storage EXCEPT ![f] = IF r.made THEN TRUE ELSE @]
          /\ last' = FileCall("NC4_create", f, r.ret, <<{}, "NC_FORMAT_NETCDF4">>)
    /\ UNCHANGED <<nc4_chunk_cache, paths, obj, natts>>

CacheOpen(f) ==
    /\ ~files[f].open
    /\ storage[f]
    /\ LET r == NC4_open({}, nc4_chunk_cache, 0, FALSE, "ok")
       IN /\ files' = [files EXCEPT ![f] = r.h5]
          /\ last' = FileCall("NC4_open", f, r.ret, <<{}>>)
    /\ UNCHANGED <<nc4_chunk_cache, paths, storage, obj, natts>>

CacheClose(f) ==
    /\ files[f].open
    /\ LET r == NC4_close(files[f], TRUE, FALSE, GoodClose, "NC_NOERR")
       IN /\ files' = [files EXCEPT ![f] = r.h5]
          /\ last' = FileCall("NC4_close", f, r.ret, <<TRUE, FALSE>>)
    /\ UNCHANGED <<nc4_chunk_cache, paths, storage, obj, natts>>

NextCache ==
    \/ SetChunkCache
    \/ SetChunkCacheInts
    \/ \E f \in Slots : CacheCreate(f)
    \/ \E f \in Slots : CacheOpen(f)
    \/ \E f \in Slots : CacheClose(f)

SpecCache == InitCache /\ [][NextCache]_vars

(***************************************************************************)
(* Reading the attributes of one object: specification SpecAtt             *)
(***************************************************************************)
AttNames ==
    {NC_reserved[i].name : i \in 1..NRESERVED} \cup {ATT_UNITS, ATT_FILLVALUE}

StoredAtts == [name : AttNames, cls : AttClasses]

\* what a file can hold for one object: up to MaxAtts attributes in creation
\* order, no two of them with the same name
StoredLists ==
    UNION {{q \in [1..n -> StoredAtts] :
               \A i, j \in 1..n : i # j => q[i].name # q[j].name} : n \in 0..MaxAtts}

AttCall(op, ret, args) == [NoCall EXCEPT !.op = op, !.ret = ret, !.args = args]

\* the object as read_var and nc4_rec_read_metadata leave it: nothing read
\* yet, atts_not_read set
InitAtt ==
    /\ nc4_chunk_cache \in BuildDefaults
    /\ files = [f \in Slots |-> ClosedFile]
    /\ paths = [f \in Slots |-> "shorter"]
    /\ storage = [f \in Slots |-> TRUE]
    /\ last = NoCall
    /\ natts = 0
    /\ \E kind \in {"rootgrp", "childgrp", "var"}, stored \in StoredLists :
           obj = [kind |-> kind, stored |-> stored, att |-> <<>>,
                  atts_not_read |-> TRUE, cmode |-> {}, ret |-> "NC_NOERR"]

\* a read that failed is tried again by the next caller; the number of
\* records a list may collect that way is capped
AttRoom == Len(obj.att) + Len(obj.stored) <= MaxAtts + 1

ReadVarAtts ==
    /\ obj.kind = "var"
    /\ obj.atts_not_read
    /\ AttRoom
    /\ obj' = nc4_read_var_atts(obj)
    /\ last' = AttCall("nc4_read_var_atts", obj'.ret, <<>>)
    /\ UNCHANGED <<nc4_chunk_cache, files, paths, storage, natts>>

ReadGrpAtts ==
    /\ obj.kind \in {"rootgrp", "childgrp"}
    /\ obj.atts_not_read
    /\ AttRoom
    /\ obj' = nc4_read_grp_atts(obj)
    /\ last' = AttCall("nc4_read_grp_atts", obj'.ret, <<>>)
    /\ UNCHANGED <<nc4_chunk_cache, files, paths, storage, natts>>

Inq ==
    /\ obj.kind \in {"rootgrp", "childgrp"}
    /\ AttRoom
    /\ \E nattsp \in BOOLEAN :
           LET r == NC4_inq(obj, nattsp, natts)
           IN /\ obj' = r.obj
              /\ natts' = r.natts
              /\ last' = AttCall("NC4_inq", r.obj.ret, <<nattsp>>)
    /\ UNCHANGED <<nc4_chunk_cache, files, paths, storage>>

NextAtt ==
    \/ ReadVarAtts
    \/ ReadGrpAtts
    \/ Inq

SpecAtt == InitAtt /\ [][NextAtt]_vars

(***************************************************************************)
(* Looking names up in the reserved table: specification SpecFind          *)
(***************************************************************************)
\* the names looked up: every reserved name, every proper prefix of one
\* (the empty name included), every reserved name with one more character
\* or with its last character one lower or higher, and the ordinary names
ProbeNames ==
    LET R == {NC_reserved[i].name : i \in 1..NRESERVED}
    IN R \cup UNION {{SubSeq(r, 1, n) : n \in 0..(Len(r) - 1)} : r \in R}
         \cup {Append(r, c) : r \in R, c \in {48, 95, 122}}
         \cup {[r EXCEPT ![Len(r)] = @ + d] : r \in R, d \in {0 - 1, 1}}
         \cup {ATT_UNITS, ATT_FILLVALUE}

InitFind ==
    /\ nc4_chunk_cache \in BuildDefaults
    /\ files = [f \in Slots |-> ClosedFile]
    /\ paths = [f \in Slots |-> "shorter"]
    /\ storage = [f \in Slots |-> TRUE]
    /\ obj = AttIdle
    /\ natts = 0
    /\ \E name \in ProbeNames : last = [NoCall EXCEPT !.args = <<name, 0>>]

\* the caller holds a name and looks it up; the position found (0 for NULL)
\* is kept next to the name
FindReserved ==
    /\ \E name \in ProbeNames :
           last' = AttCall("NC_findreserved", "NC_NOERR",
                           <<name, NC_findreserved(name)>>)
    /\ UNCHANGED <<nc4_chunk_cache, files, paths, storage, obj, natts>>

NextFind == FindReserved

SpecFind == InitFind /\ [][NextFind]_vars

(***************************************************************************)
(* Reading one attribute's value: specification SpecAttVal                 *)
(***************************************************************************)
IntNatives ==
    {"H5T_NATIVE_SCHAR", "H5T_NATIVE_SHORT", "H5T_NATIVE_INT", "H5T_NATIVE_UCHAR",
     "H5T_NATIVE_USHORT", "H5T_NATIVE_UINT", "H5T_NATIVE_LLONG",
     "H5T_NATIVE_ULLONG", "none"}
FloatNatives == {"H5T_NATIVE_FLOAT", "H5T_NATIVE_DOUBLE", "none"}
UserClasses == {"H5T_COMPOUND", "H5T_VLEN", "H5T_ENUM", "H5T_OPAQUE"}

\* the types an attribute can have in a file
AttTypes ==
    {VarString} \cup {FixedString(w) : w \in 0..MaxWidth}
      \cup {AtomicType("H5T_INTEGER", n, 4) : n \in IntNatives}
      \cup {AtomicType("H5T_FLOAT", n, 8) : n \in FloatNatives}
      \cup {UserType(c, tid) : c \in UserClasses, tid \in 1..2}

\* the dataspaces an attribute can have: null, scalar, rank 1 and rank 2
AttSpaces ==
    {NullSpace, ScalarSpace}
      \cup {SimpleSpace(d) : d \in [1..1 -> 0..MaxExtent] \cup [1..2 -> 0..MaxExtent]}

\* the user-defined types the file has read so far: none, or type 1
TypeLists == {<<>>, <<TypeInfo(NC_FIRSTUSERTYPEID, 1, "NC_COMPOUND", 8)>>}

InitAttVal ==
    /\ nc4_chunk_cache \in BuildDefaults
    /\ files = [f \in Slots |-> ClosedFile]
    /\ paths = [f \in Slots |-> "shorter"]
    /\ storage = [f \in Slots |-> TRUE]
    /\ last = NoCall
    /\ natts = 0
    /\ \E type \in AttTypes, space \in AttSpaces, fail \in AttFails,
          types \in TypeLists :
           obj = [kind |-> "att", types |-> types,
                  stored |-> [type |-> type, space |-> space, fail |-> fail],
                  att |-> AttResult("NC_NOERR", NC_NAT, 0, NoBuf)]

\* the record of an attribute has been added to a list and is filled in
ReadAtt ==
    /\ last.op = "none"
    /\ obj' = [obj EXCEPT !.att = read_hdf5_att(obj.types, obj.stored)]
    /\ last' = AttCall("read_hdf5_att", obj'.att.ret, <<>>)
    /\ UNCHANGED <<nc4_chunk_cache, files, paths, storage, natts>>

NextAttVal == ReadAtt

SpecAttVal == InitAttVal /\ [][NextAttVal]_vars

(***************************************************************************)
(* Classifying native types in one open file: specification SpecType       *)
(***************************************************************************)
\* the type lists of an open file: no user-defined type; type 1; type 1
\* read from two links (so with two records); types 1 and 2
OpenTypeLists ==
    {<<>>,
     <<TypeInfo(NC_FIRSTUSERTYPEID, 1, "NC_COMPOUND", 8)>>,
     <<TypeInfo(NC_FIRSTUSERTYPEID, 1, "NC_COMPOUND", 8),
       TypeInfo(NC_FIRSTUSERTYPEID + 1, 1, "NC_COMPOUND", 8)>>,
     <<TypeInfo(NC_FIRSTUSERTYPEID, 2, "NC_ENUM", 4),
       TypeInfo(NC_FIRSTUSERTYPEID + 1, 1, "NC_VLEN", 16)>>}

\* the native types handed to the classifiers
Handles ==
    {VarString, FixedString(1), FixedString(MaxWidth + 1),
     AtomicType("H5T_INTEGER", "H5T_NATIVE_INT", 4),
     AtomicType("H5T_INTEGER", "H5T_NATIVE_ULLONG", 8),
     AtomicType("H5T_INTEGER", "none", 16),
     AtomicType("H5T_FLOAT", "H5T_NATIVE_DOUBLE", 8),
     AtomicType("H5T_FLOAT", "none", 16),
     UserType("H5T_COMPOUND", 1), UserType("H5T_ENUM", 2)}

\* what a call of a classifier leaves in last.args: the handle, the
\* position of the record found in the type list (0 if none), the type id
\* assigned, and handle and position of the call before
TypeCall(op, ret, t, type, xtype) ==
    AttCall(op, ret, <<t, type, xtype, last.args[1], last.args[2]>>)

InitType ==
    /\ nc4_chunk_cache \in BuildDefaults
    /\ files = [f \in Slots |-> ClosedFile]
    /\ paths = [f \in Slots |-> "shorter"]
    /\ storage = [f \in Slots |-> TRUE]
    /\ last = [NoCall EXCEPT !.args = <<NoType, 0, NC_NAT, NoType, 0>>]
    /\ natts = 0
    /\ \E types \in OpenTypeLists : obj = [kind |-> "types", types |-> types]

\* the type of a dataset is classified
GetTypeInfo2 ==
    /\ \E t \in Handles, order \in Orders :
           LET r == get_type_info2(obj.types, t, order)
           IN /\ obj' = [obj EXCEPT !.types = r.types]
              /\ last' = TypeCall("get_type_info2", r.ret, t, r.type,
                                  IF r.type # 0 THEN r.types[r.type].id
                                  ELSE r.phony.id)
    /\ UNCHANGED <<nc4_chunk_cache, files, paths, storage, natts>>

\* the type of an attribute or of a member is classified
GetNetcdfType ==
    /\ \E t \in Handles :
           LET r == get_netcdf_type(obj.types, t)
           IN /\ obj' = obj
              /\ last' = TypeCall("get_netcdf_type", r.ret, t,
                                  IF r.xtype >= NC_FIRSTUSERTYPEID
                                  THEN CHOOSE i \in DOMAIN obj.types :
                                           /\ obj.types[i].id = r.xtype
                                           /\ \A j \in 1..(i - 1) :
                                                  obj.types[j].id # r.xtype
                                  ELSE 0,
                                  r.xtype)
    /\ UNCHANGED <<nc4_chunk_cache, files, paths, storage, natts>>

NextType ==
    \/ GetTypeInfo2
    \/ GetNetcdfType

SpecType == InitType /\ [][NextType]_vars

(***************************************************************************)
(* Opening a file and walking its metadata                                 *)
(***************************************************************************)
\* the type handles stored in the files of the model
StoredInt == AtomicType("H5T_INTEGER", "H5T_NATIVE_INT", 4)
StoredLongDouble == AtomicType("H5T_FLOAT", "none", 16)
StoredIds == {0 - 1, 0, MaxDimid}

\* the objects without links of their own: an int dataset, a dataset of a
\* number netCDF has no type for, a dataset of the named compound type 1,
\* that named type, a named compound type with a member of no netCDF type,
\* coordinate variables with and without a stored dimension id, and a
\* dataset the engine fails on
Leaves ==
    {StoredDataset(StoredInt, FALSE, 0 - 1, "none"),
     StoredDataset(StoredLongDouble, FALSE, 0 - 1, "none"),
     StoredDataset(UserType("H5T_COMPOUND", 1), FALSE, 0 - 1, "none"),
     StoredType(UserType("H5T_COMPOUND", 1), StoredInt),
     StoredType(UserType("H5T_COMPOUND", 2), StoredLongDouble),
     StoredDataset(StoredInt, FALSE, 0 - 1, "H5Dget_space")}
    \cup {StoredDataset(StoredInt, TRUE, k, "none") : k \in StoredIds}

\* the link lists with exactly n objects below them
RECURSIVE Forests(_)
Forests(n) ==
    IF n = 0 THEN {<<>>}
    ELSE {<<l>> \o rest : l \in Leaves, rest \in Forests(n - 1)}
         \cup UNION {{<<StoredGroup(inner)>> \o rest :
                          inner \in Forests(c), rest \in Forests(n - 1 - c)} :
                     c \in 0..(n - 1)}

\* the link lists with at most n objects below them
StoredFiles(n) == UNION {Forests(k) : k \in 0..n}

\* the object a path leads to
RECURSIVE ObjAt(_, _)
ObjAt(links, path) ==
    IF Len(path) = 1 THEN links[path[1]]
    ELSE ObjAt(links[path[1]].links, Tail(path))

MetaCall(op, ret, trace, args) ==
    [NoCall EXCEPT !.op = op, !.ret = ret, !.trace = trace, !.args = args]

InitMeta ==
    /\ nc4_chunk_cache \in BuildDefaults
    /\ files = [f \in Slots |-> ClosedFile]
    /\ paths = [f \in Slots |-> "shorter"]
    /\ \E links \in StoredFiles(MaxObjs), tracked \in BOOLEAN :
           storage = [links |-> links, tracked |-> tracked]
    /\ last = NoCall
    /\ natts = 0
    /\ obj = [kind |-> "file", open |-> FALSE, meta |-> NewMeta(FALSE, FALSE),
              closed |-> FALSE, prev |-> <<>>]

\* the file is opened and its metadata is read; if that fails the file is
\* closed again and everything read is freed
OpenMeta ==
    /\ ~obj.open
    /\ \E mode \in {{}, NC_WRITE} :
           LET m == NewMeta(BitAnd(mode, NC_WRITE) = {}, storage.tracked)
               r == nc4_rec_read_metadata(m, <<>>, storage.links)
           IN /\ obj' = IF r.ret = "NC_NOERR"
                        THEN [obj EXCEPT !.open = TRUE, !.meta = r.m]
                        ELSE obj
              /\ last' = MetaCall("nc4_open_file", r.ret, r.m.trace, <<r.m>>)
    /\ UNCHANGED <<nc4_chunk_cache, files, paths, storage, natts>>

\* the file is closed: the metadata is freed (the model keeps the
\* dimensions it had, to compare them with those of the next open)
CloseMeta ==
    /\ obj.open
    /\ obj' = [obj EXCEPT !.open = FALSE, !.closed = TRUE,
                          !.prev = obj.meta.dims,
                          !.meta = NewMeta(FALSE, FALSE)]
    /\ last' = MetaCall("close_netcdf4_file", "NC_NOERR", <<>>, <<>>)
    /\ UNCHANGED <<nc4_chunk_cache, files, paths, storage, natts>>

NextMeta ==
    \/ OpenMeta
    \/ CloseMeta

SpecMeta == InitMeta /\ [][NextMeta]_vars

(***************************************************************************)
(* Reading dimension scales one by one: specification SpecScale            *)
(***************************************************************************)
ScaleFails == {"none", "H5Aread", "nc4_dim_list_add", "nc4_find_dim_len"}

\* the scale datasets a group can hold (the read of the stored id can only
\* fail if there is one)
Scales ==
    {StoredDataset(StoredInt, TRUE, k, fail) :
         k \in StoredIds, fail \in ScaleFails} \
    {StoredDataset(StoredInt, TRUE, 0 - 1, "H5Aread")}

ScaleCall(ret, o, pre) ==
    [NoCall EXCEPT !.op = "read_scale", !.ret = ret, !.args = <<o, pre>>]

InitScale ==
    /\ nc4_chunk_cache \in BuildDefaults
    /\ files = [f \in Slots |-> ClosedFile]
    /\ paths = [f \in Slots |-> "shorter"]
    /\ storage = [f \in Slots |-> TRUE]
    /\ last = NoCall
    /\ natts = 0
    /\ obj = [kind |-> "grp", meta |-> NewMeta(FALSE, TRUE), links |-> 0]

\* the next link of the group is a scale dataset
ReadScale ==
    /\ obj.links < MaxObjs
    /\ \E o \in Scales :
           LET r == read_scale(obj.meta, <<obj.links + 1>>, o)
           IN /\ obj' = [obj EXCEPT !.meta = r.m, !.links = @ + 1]
              /\ last' = ScaleCall(r.ret, o, obj.meta)
    /\ UNCHANGED <<nc4_chunk_cache, files, paths, storage, natts>>

NextScale == ReadScale

SpecScale == InitScale /\ [][NextScale]_vars

(***************************************************************************)
(* Modes of one file: specification SpecMode                               *)
(***************************************************************************)
\* how the open file came to be and whether it has left define mode by a
\* call that succeeded
NoOrigin == [kind |-> "mode", origin |-> "none", left |-> FALSE]

ModeCall(op, ret, trace, removed) ==
    [NoCall EXCEPT !.op = op, !.f = 1, !.ret = ret, !.pre = files[1],
                   !.preStored = storage[1], !.trace = trace,
                   !.removed = removed, !.args = <<obj.origin, obj.left>>]

\* the history after a call that left the record h5
Origin(h5, left) ==
    IF h5.open THEN [obj EXCEPT !.left = left] ELSE NoOrigin

CreateModes == {{}, NC_CLASSIC_MODEL, NC_INMEMORY}
OpenModes == {NC_NOWRITE, NC_WRITE, BitOr(NC_WRITE, NC_INMEMORY)}
ModeSyncEnvs == {GoodSync, [wfail |-> 2, flush |-> TRUE], [wfail |-> 0, flush |-> FALSE]}
ModeCloseEnvs == {e \in CloseEnvs : e.sync \in ModeSyncEnvs}
ModeAbortEnvs == {e \in AbortEnvs : e.close \in ModeCloseEnvs}

InitMode ==
    /\ nc4_chunk_cache \in BuildDefaults
    /\ files = [f \in Slots |-> ClosedFile]
    /\ paths \in {p \in [Slots -> PathLens] : \A f \in Slots \ {1} : p[f] = "shorter"}
    /\ storage = [f \in Slots |-> f = 1]
    /\ last = NoCall
    /\ obj = NoOrigin
    /\ natts = 0

ModeCreate ==
    /\ ~files[1].open
    /\ \E cmode \in CreateModes :
         LET r == NC4_create(cmode, "NC_FORMAT_NETCDF4", nc4_chunk_cache, "ok")
         IN /\ files' = [files EXCEPT ![1] = r.h5]
            /\ storage' = [storage EXCEPT ![1] = IF r.made THEN TRUE ELSE @]
            /\ obj' = [NoOrigin EXCEPT !.origin = "NC4_create"]
            /\ last' = ModeCall("NC4_create", r.ret, <<>>, "none")
    /\ UNCHANGED <<nc4_chunk_cache, paths, natts>>

ModeOpen ==
    /\ ~files[1].open
    /\ storage[1]
    /\ \E mode \in OpenModes, nvars \in 0..MaxVars, is_classic \in BOOLEAN :
         LET r == NC4_open(mode, nc4_chunk_cache, nvars, is_classic, "ok")
         IN /\ files' = [files EXCEPT ![1] = r.h5]
            /\ obj' = [NoOrigin EXCEPT !.origin = "NC4_open"]
            /\ last' = ModeCall("NC4_open", r.ret, <<>>, "none")
    /\ UNCHANGED <<nc4_chunk_cache, paths, storage, natts>>

\* a variable is defined in a writable file that is in define mode
ModeDefVar ==
    /\ files[1].open
    /\ BitAnd(files[1].flags, NC_INDEF) # {}
    /\ ~files[1].no_write
    /\ Len(files[1].vars) < MaxVars
    /\ files' = [files EXCEPT ![1] = nc_def_var(@)]
    /\ last' = ModeCall("nc_def_var", "NC_NOERR", <<>>, "none")
    /\ UNCHANGED <<nc4_chunk_cache, paths, storage, obj, natts>>

ModeSetFill ==
    /\ files[1].open
    /\ \E fillmode \in FillModes :
         LET r == NC4_set_fill(files[1], fillmode)
         IN /\ files' = [files EXCEPT ![1] = r.h5]
            /\ last' = ModeCall("NC4_set_fill", r.ret, <<>>, "none")
    /\ UNCHANGED <<nc4_chunk_cache, paths, storage, obj, natts>>

ModeRedef ==
    /\ files[1].open
    /\ LET r == NC4_redef(files[1])
       IN /\ files' = [files EXCEPT ![1] = r.h5]
          /\ last' = ModeCall("NC4_redef", r.ret, <<>>, "none")
    /\ UNCHANGED <<nc4_chunk_cache, paths, storage, obj, natts>>

ModeEnddef ==
    /\ files[1].open
    /\ \E env \in ModeSyncEnvs, junk \in JunkFor(files[1]) :
         LET r == NC4__enddef(files[1], env, junk)
             indef == BitAnd(files[1].flags, NC_INDEF) # {}
         IN /\ files' = [files EXCEPT ![1] = r.h5]
            /\ obj' = Origin(r.h5, obj.left \/ (indef /\ r.ret = "NC_NOERR"))
            /\ last' = ModeCall("NC4__enddef", r.ret, r.trace, "none")
    /\ UNCHANGED <<nc4_chunk_cache, paths, storage, natts>>

ModeSync ==
    /\ files[1].open
    /\ \E env1 \in ModeSyncEnvs, env2 \in ModeSyncEnvs, junk \in JunkFor(files[1]) :
         /\ env1 # GoodSync => env2 = GoodSync
         /\ LET r == NC4_sync(files[1], env1, env2, junk)
                indef == BitAnd(files[1].flags, NC_INDEF) # {}
            IN /\ files' = [files EXCEPT ![1] = r.h5]
               /\ obj' = Origin(r.h5, obj.left \/ (indef /\ r.ret = "NC_NOERR"))
               /\ last' = ModeCall("NC4_sync", r.ret, r.trace, "none")
    /\ UNCHANGED <<nc4_chunk_cache, paths, storage, natts>>

ModeAbort ==
    /\ files[1].open
    /\ \E env \in ModeAbortEnvs, junk \in JunkFor(files[1]) :
         LET r == NC4_abort(files[1], paths[1], storage[1], env, junk)
         IN /\ files' = [files EXCEPT ![1] = r.h5]
            /\ storage' = [storage EXCEPT ![1] = IF r.removed = "self" THEN FALSE ELSE @]
            /\ obj' = Origin(r.h5, obj.left)
            /\ last' = ModeCall("NC4_abort", r.ret, r.trace, r.removed)
    /\ UNCHANGED <<nc4_chunk_cache, paths, natts>>

ModeClose ==
    /\ files[1].open
    /\ \E params \in BOOLEAN, env \in ModeCloseEnvs, junk \in JunkFor(files[1]) :
         LET r == NC4_close(files[1], TRUE, params, env, junk)
         IN /\ files' = [files EXCEPT ![1] = r.h5]
            /\ obj' = Origin(r.h5, obj.left)
            /\ last' = ModeCall("NC4_close", r.ret, r.trace, "none")
    /\ UNCHANGED <<nc4_chunk_cache, paths, storage, natts>>

NextMode ==
    \/ ModeCreate
    \/ ModeOpen
    \/ ModeDefVar
    \/ ModeSetFill
    \/ ModeRedef
    \/ ModeEnddef
    \/ ModeSync
    \/ ModeAbort
    \/ ModeClose

SpecMode == InitMode /\ [][NextMode]_vars

(***************************************************************************)
(* Properties of the lifecycle                                             *)
(***************************************************************************)
Occurs(x, seq) == \E i \in DOMAIN seq : seq[i] = x
InDefine(h5) == BitAnd(h5.flags, NC_INDEF) # {}
IsClassic(h5) == BitAnd(h5.cmode, NC_CLASSIC_MODEL) # {}
SyncEvents == {WriteNames[i] : i \in DOMAIN WriteNames} \cup {"H5Fflush"}
Synced(trace) == \E i \in DOMAIN trace : trace[i] \in SyncEvents

\* C1: an enddef that succeeds on a file in define mode leaves it in data
\* mode; an enddef on a file that is not in define mode returns
\* NC_ENOTINDEFINE and changes neither the define-mode flag nor the redef
\* marker (so a second enddef in a row fails with NC_ENOTINDEFINE).
C1_EnddefOnlyInDefine ==
    last.op = "NC4__enddef" =>
        /\ (InDefine(last.pre) /\ last.ret = "NC_NOERR") => ~InDefine(files[last.f])
        /\ ~InDefine(last.pre) =>
               /\ last.ret = "NC_ENOTINDEFINE"
               /\ files[last.f].flags = last.pre.flags
               /\ files[last.f].redef = last.pre.redef

C1_Witness ==
    /\ last.op = "NC4__enddef" /\ last.ret = "NC_ENOTINDEFINE"
    /\ last.prevOp = "NC4__enddef" /\ last.prevRet = "NC_NOERR"

\* C2: when NC4_abort returns without error, the file at the path has been
\* removed from storage if and only if the file was in define mode and the
\* redef marker was false when abort was called.
C2_AbortRemovesIffCreating ==
    (last.op = "NC4_abort" /\ last.ret = "NC_NOERR") =>
        ((last.preStored /\ ~storage[last.f])
            <=> (InDefine(last.pre) /\ ~last.pre.redef))

\* C3: NC4_sync on a file in define mode returns NC_EINDEFINE and leaves the
\* file as it was when the file is in classic-model mode; otherwise it ends
\* define mode and clears the redef marker, and when it returns success the
\* metadata write steps and the global flush have run and the file is in
\* data mode.
C3_SyncInDefineMode ==
    (last.op = "NC4_sync" /\ InDefine(last.pre)) =>
        IF IsClassic(last.pre)
        THEN last.ret = "NC_EINDEFINE" /\ files[last.f] = last.pre
        ELSE /\ ~InDefine(files[last.f])
             /\ ~files[last.f].redef
             /\ last.ret = "NC_NOERR" =>
                    \A e \in SyncEvents : Occurs(e, last.trace)

C3_Witness ==
    /\ last.op = "NC4_sync" /\ InDefine(last.pre) /\ last.pre.redef
    /\ ~IsClassic(last.pre) /\ last.ret = "NC_NOERR"

\* C4: NC4_redef returns NC_EINDEFINE on a file already in define mode and
\* NC_EPERM on a read-only file, leaving the file unchanged in both cases;
\* on a writable file in data mode it succeeds, sets define mode and sets
\* the redef marker.
C4_RedefErrors ==
    last.op = "NC4_redef" =>
        /\ InDefine(last.pre) =>
               last.ret = "NC_EINDEFINE" /\ files[last.f] = last.pre
        /\ last.pre.no_write =>
               last.ret = "NC_EPERM" /\ files[last.f] = last.pre
        /\ (~InDefine(last.pre) /\ ~last.pre.no_write) =>
               /\ last.ret = "NC_NOERR"
               /\ InDefine(files[last.f])
               /\ files[last.f].redef

C4_Witness ==
    last.op = "NC4_redef" /\ last.pre.no_write /\ last.ret = "NC_EPERM"

\* C5: after a successful NC4_create the file is in define mode with the
\* redef marker false; after a successful NC4_open the file is not in define
\* mode and is read-only exactly when NC_WRITE was absent from the mode.
C5_ModeAfterCreateOpen ==
    /\ (last.op = "NC4_create" /\ last.ret = "NC_NOERR") =>
           /\ files[last.f].open
           /\ InDefine(files[last.f])
           /\ ~files[last.f].redef
    /\ (last.op = "NC4_open" /\ last.ret = "NC_NOERR") =>
           /\ files[last.f].open
           /\ ~InDefine(files[last.f])
           /\ files[last.f].no_write <=> (BitAnd(last.args[1], NC_WRITE) = {})

C5_Witness ==
    /\ last.op = "NC4_open" /\ last.ret = "NC_NOERR"
    /\ files[last.f].no_write /\ BitAnd(last.args[1], NC_WRITE) = {}

\* C6 as stated: NC4_close on a file in define mode fails with NC_EINDEFINE
\* when the file is in classic-model mode, and ends define mode implicitly
\* otherwise.
C6_CloseFailsInClassicDefine ==
    (last.op = "NC4_close" /\ last.args[1] /\ InDefine(last.pre)) =>
        IF IsClassic(last.pre)
        THEN last.ret = "NC_EINDEFINE"
        ELSE last.ret # "NC_EINDEFINE" /\ ~InDefine(files[last.f])

\* C6 amended: NC4_close on a file in define mode always ends define mode
\* implicitly and goes on to the sync, in classic-model mode too; it never
\* fails with NC_EINDEFINE.
C6_CloseAlwaysEndsDefine ==
    (last.op = "NC4_close" /\ last.args[1] /\ InDefine(last.pre)) =>
        /\ last.ret # "NC_EINDEFINE"
        /\ ~InDefine(files[last.f])
        /\ Synced(last.trace)

C6_Witness ==
    /\ last.op = "NC4_close" /\ last.args[1] /\ InDefine(last.pre)
    /\ IsClassic(last.pre) /\ last.ret = "NC_NOERR" /\ ~files[last.f].open

\* C7: the close step syncs exactly when the file is writable and the call
\* is not an abort: NC4_abort and NC4_close of a read-only file run no
\* metadata write and no flush, and a successful one releases the group
\* tree and the container handle; NC4_close of a writable file runs the
\* sync first, before anything is released.
C7_SyncUnlessAbortOrReadOnly ==
    /\ last.op = "NC4_abort" => ~Synced(last.trace)
    /\ (last.op = "NC4_close" /\ last.args[1] /\ last.pre.no_write) =>
           ~Synced(last.trace)
    /\ (last.op \in {"NC4_abort", "NC4_close"} /\ last.ret = "NC_NOERR") =>
           /\ Occurs("nc4_rec_grp_del", last.trace)
           /\ Occurs("H5Fclose", last.trace)
    /\ (last.op = "NC4_close" /\ last.args[1] /\ ~last.pre.no_write) =>
           /\ Synced(last.trace)
           /\ last.trace[1] \in SyncEvents
           /\ \A i, j \in DOMAIN last.trace :
                  (last.trace[i] \in SyncEvents /\ last.trace[j] \notin SyncEvents)
                      => i < j

C7_Witness ==
    /\ last.op = "NC4_close" /\ last.args[1] /\ last.pre.no_write
    /\ last.ret = "NC_NOERR" /\ Occurs("H5Fclose", last.trace)

(***************************************************************************)
(* Properties of the chunk-cache defaults                                  *)
(***************************************************************************)
Setters == {"nc_set_chunk_cache", "nc_set_chunk_cache_ints"}

\* C8: a chunk-cache setter called with invalid arguments returns NC_EINVAL
\* and leaves all three defaults as they were: nc_set_chunk_cache is invalid
\* when the preemption is outside [0,1], nc_set_chunk_cache_ints when
\* size <= 0, nelems <= 0 or the scaled preemption is outside [0,100]; with
\* valid arguments each setter stores all three values.
C8_SetterAllOrNothing ==
    [][LET size == last'.args[1]
           nelems == last'.args[2]
           preemption == last'.args[3]
           badp == preemption < 0 \/ preemption > 100
           bad == IF last'.op = "nc_set_chunk_cache" THEN badp
                  ELSE size <= 0 \/ nelems <= 0 \/ badp
       IN last'.op \in Setters =>
             IF bad
             THEN last'.ret = "NC_EINVAL" /\ nc4_chunk_cache' = nc4_chunk_cache
             ELSE /\ last'.ret = "NC_NOERR"
                  /\ nc4_chunk_cache'.size = size
                  /\ nc4_chunk_cache'.nelems = nelems
                  /\ nc4_chunk_cache'.preemption = preemption]_vars

\* a setter has just refused a size that differs from the stored one, and
\* the stored one is still there
C8_Witness ==
    /\ last.op = "nc_set_chunk_cache" /\ last.args[3] > 100
    /\ last.ret = "NC_EINVAL"
    /\ last.args[1] # nc4_chunk_cache.size
    /\ last.args[2] # nc4_chunk_cache.nelems

\* C9: the cache configuration of a file is the value the process-wide
\* defaults had when the file was created or opened; a later call of a
\* setter changes only the defaults and leaves every file as it was, and
\* the configuration of an open file never changes.
C9_CacheCapturedAtOpen ==
    [][/\ last'.op \in Setters => files' = files
       /\ \A f \in Slots :
            /\ (~files[f].open /\ files'[f].open) =>
                   files'[f].cache = nc4_chunk_cache
            /\ (files[f].open /\ files'[f].open) =>
                   files'[f].cache = files[f].cache]_vars

C9_Witness ==
    /\ last.op \in Setters /\ last.ret = "NC_NOERR"
    /\ \E f \in Slots : files[f].open /\ files[f].cache # nc4_chunk_cache

(***************************************************************************)
(* Properties of attribute reading                                         *)
(***************************************************************************)
IsReserved(name) == \E i \in 1..NRESERVED : NC_reserved[i].name = name

NameOnly == {ISNETCDF4ATT, NCPROPS, SUPERBLOCKATT}

IsGroup == obj.kind \in {"rootgrp", "childgrp"}

\* the names a group shows once it has been read without an error
ShownByGroup(a) ==
    /\ a.name # NC3_STRICT_ATT_NAME
    /\ ~(obj.kind = "rootgrp" /\ a.name \in NameOnly)
    /\ a.cls = "ok"

NamesOf(list) == [i \in DOMAIN list |-> list[i].name]

\* C10, as stated: no reserved attribute name is ever in the attribute
\* collection of a variable or of a group, root or nested.
C10_NoReservedNameShown ==
    \A i \in DOMAIN obj.att : ~IsReserved(obj.att[i].name)

\* C10, as the code has it: a variable never shows a reserved name; a group
\* never shows _nc3_strict, and the root group never shows a name-only name
\* (_IsNetcdf4, _NCProperties, _SuperblockVersion); every other reserved name
\* stored on a group is read like an ordinary attribute, and the count that
\* NC4_inq hands back is the length of the collection, those names included.
C10_ReservedNamesHidden ==
    /\ obj.kind = "var" =>
           \A i \in DOMAIN obj.att : ~IsReserved(obj.att[i].name)
    /\ IsGroup =>
           \A i \in DOMAIN obj.att : obj.att[i].name # NC3_STRICT_ATT_NAME
    /\ obj.kind = "rootgrp" =>
           \A i \in DOMAIN obj.att : obj.att[i].name \notin NameOnly
    /\ (IsGroup /\ ~obj.atts_not_read) =>
           NamesOf(obj.att) = NamesOf(SelectSeq(obj.stored, ShownByGroup))
    /\ (last.op = "NC4_inq" /\ last.ret = "NC_NOERR" /\ last.args = <<TRUE>>) =>
           /\ ~obj.atts_not_read
           /\ natts = Len(obj.att)

\* the root group holds _NCProperties and CLASS; NC4_inq has read it and
\* counts one attribute, CLASS
C10_Witness ==
    /\ obj.kind = "rootgrp"
    /\ last.op = "NC4_inq" /\ last.ret = "NC_NOERR"
    /\ \E i \in DOMAIN obj.stored : obj.stored[i].name = NCPROPS
    /\ \E i \in DOMAIN obj.att : obj.att[i].name = NC_ATT_CLASS
    /\ natts = 1

AttRead == last.op \in {"nc4_read_var_atts", "nc4_read_grp_atts"}
Representable(a) == ~IsReserved(a.name) /\ a.cls = "ok"
ShownByVar(a) == Representable(a)
\* the attributes the read gets as far as calling read_hdf5_att on
ReadByVar(a) == ~IsReserved(a.name)
ReadByGroup(a) ==
    /\ a.name # NC3_STRICT_ATT_NAME
    /\ ~(obj.kind = "rootgrp" /\ a.name \in NameOnly)
Corrupt(a) == a.cls = "corrupt"
HasCorrupt(list) == \E i \in DOMAIN list : Corrupt(list[i])

\* C19, as stated: a read of the attributes of a variable or group that
\* meets an attribute of no netCDF type drops it and succeeds, the
\* collection then holding exactly the other non-reserved attributes in
\* iteration order; a read that meets any other failure of read_hdf5_att
\* hands that failure back
C19_BadTypeAttDropped ==
    AttRead =>
        /\ last.ret = "NC_NOERR" =>
               NamesOf(obj.att) = NamesOf(SelectSeq(obj.stored, Representable))
        /\ HasCorrupt(SelectSeq(obj.stored, ReadByVar)) =>
               last.ret = AttRet["corrupt"]

\* C19, as the code has it: the attribute of no netCDF type is dropped and
\* the read succeeds in both readers; a variable then shows the other
\* non-reserved attributes, a group the other attributes it reads, the
\* reserved names it does not hide included; on any other failure the read
\* stops at that attribute, leaving its record last in the collection and
\* the object marked unread, and a group hands back the code of
\* read_hdf5_att while a variable hands back NC_EATTMETA
C19_BadTypeAttDroppedOthersShown ==
    AttRead =>
        LET read == IF obj.kind = "var" THEN SelectSeq(obj.stored, ReadByVar)
                    ELSE SelectSeq(obj.stored, ReadByGroup)
            shown == IF obj.kind = "var" THEN SelectSeq(obj.stored, ShownByVar)
                     ELSE SelectSeq(obj.stored, ShownByGroup)
        IN /\ last.ret = "NC_NOERR" <=> ~HasCorrupt(read)
           /\ last.ret = "NC_NOERR" =>
                  /\ NamesOf(obj.att) = NamesOf(shown)
                  /\ ~obj.atts_not_read
           /\ last.ret # "NC_NOERR" =>
                  /\ last.ret = IF obj.kind = "var" THEN "NC_EATTMETA"
                                ELSE AttRet["corrupt"]
                  /\ obj.atts_not_read
                  /\ obj.att # <<>>
                  /\ ~obj.att[Len(obj.att)].created
                  /\ \E i \in DOMAIN read :
                         /\ Corrupt(read[i])
                         /\ \A j \in 1..(i - 1) : ~Corrupt(read[j])
                         /\ read[i].name = obj.att[Len(obj.att)].name

\* an attribute of no netCDF type stored before an ordinary one: the read
\* succeeded and the collection holds the ordinary one only
C19_Witness ==
    /\ AttRead /\ last.ret = "NC_NOERR"
    /\ Len(obj.stored) = 2 /\ Len(obj.att) = 1
    /\ obj.stored[1].cls = "badtype" /\ ~IsReserved(obj.stored[1].name)
    /\ obj.stored[2].cls = "ok" /\ obj.att[1].name = obj.stored[2].name

(***************************************************************************)
(* Properties of the reserved table                                        *)
(***************************************************************************)
\* the position a scan of the table from its first entry finds, 0 if none
LinearScan(name) ==
    IF \E i \in 1..NRESERVED : NC_reserved[i].name = name
    THEN CHOOSE i \in 1..NRESERVED :
             /\ NC_reserved[i].name = name
             /\ \A j \in 1..(i - 1) : NC_reserved[j].name # name
    ELSE 0

\* C11: NC_findreserved returns the entry (and so the flags) whose name is
\* the argument for each of the 11 reserved names and NULL for any other
\* name: it agrees with a linear scan of NC_reserved, and NC_reserved is in
\* strictly ascending strcmp order.
C11_FindReservedIsLinearScan ==
    /\ \A i, j \in 1..NRESERVED :
           i < j => strcmp(NC_reserved[i].name, NC_reserved[j].name) < 0
    /\ last.op = "NC_findreserved" =>
           /\ last.args[2] = LinearScan(last.args[1])
           /\ last.args[2] # 0 =>
                  /\ NC_reserved[last.args[2]].name = last.args[1]
                  /\ READONLYFLAG \subseteq NC_reserved[last.args[2]].flags

\* the first entry of the table has been looked up and found
C11_Witness ==
    /\ last.op = "NC_findreserved"
    /\ last.args[1] = NC_ATT_CLASS
    /\ last.args[2] = 1
    /\ NC_reserved[last.args[2]].flags = BitOr(READONLYFLAG, DIMSCALEFLAG)

(***************************************************************************)
(* Properties of reading one attribute                                     *)
(***************************************************************************)
WasRead == obj.kind = "att" /\ last.op = "read_hdf5_att"

\* the attribute's type was classified and the engine did not fail
Classified ==
    /\ obj.stored.fail = "none"
    /\ get_netcdf_type(obj.types, obj.stored.type).ret = "NC_NOERR"

Rank == Len(obj.stored.space.dims)
Points == H5Sget_simple_extent_npoints(obj.stored.space)

\* C12: for an attribute that is neither string nor text, rank 0 with 0
\* points gives length 0 and no value buffer, without error; otherwise a
\* rank above 1 is rejected with NC_EATTMETA, a scalar gives length 1 and a
\* rank-1 value gives a length equal to its declared extent.
C12_LengthPolicy ==
    (WasRead /\ Classified /\ obj.stored.type.class # "H5T_STRING") =>
        IF Rank = 0 /\ Points = 0
        THEN obj.att.ret = "NC_NOERR" /\ obj.att.len = 0 /\ obj.att.buf = NoBuf
        ELSE IF Rank > 1
        THEN obj.att.ret = "NC_EATTMETA"
        ELSE IF Rank = 0
        THEN obj.att.ret = "NC_NOERR" /\ obj.att.len = 1
        ELSE obj.att.ret = "NC_NOERR" /\ obj.att.len = obj.stored.space.dims[1]

\* a double stored with rank 1 and extent MaxExtent has been read
C12_Witness ==
    /\ WasRead /\ Classified
    /\ obj.stored.type.native = "H5T_NATIVE_DOUBLE"
    /\ obj.stored.space.dims = <<MaxExtent>>
    /\ obj.att.len = MaxExtent
    /\ obj.att.buf = DataBuf(MaxExtent * 8)

\* C13: a fixed-length text attribute stored as a true scalar of width W
\* keeps the char type, has length W and one contiguous buffer; stored with
\* rank > 0 it becomes a string attribute whose length is the number of
\* points, with that many separately allocated buffers, one per string.
C13_FixedLengthText ==
    (/\ WasRead /\ Classified
     /\ obj.stored.type.class = "H5T_STRING" /\ ~obj.stored.type.vstr
     /\ obj.stored.type.size > 0) =>
        /\ obj.stored.space.cls = "H5S_SCALAR" =>
               /\ obj.att.ret = "NC_NOERR"
               /\ obj.att.nc_typeid = NC_CHAR
               /\ obj.att.len = obj.stored.type.size
               /\ obj.att.buf = DataBuf(obj.stored.type.size)
        /\ Rank > 0 =>
               /\ obj.att.ret = "NC_NOERR"
               /\ obj.att.nc_typeid = NC_STRING
               /\ obj.att.len = Points
               /\ Points > 0 =>
                      /\ obj.att.buf.kind = "stdata"
                      /\ Len(obj.att.buf.bufs) = Points
                      /\ \A i \in 1..Points :
                             obj.att.buf.bufs[i] = obj.stored.type.size
               /\ Points = 0 => obj.att.buf = NoBuf

\* MaxExtent strings of MaxWidth bytes each have been read from a rank-1
\* fixed-length text attribute
C13_Witness ==
    /\ WasRead /\ Classified
    /\ obj.stored.type = FixedString(MaxWidth)
    /\ obj.stored.space.dims = <<MaxExtent>>
    /\ obj.att.nc_typeid = NC_STRING
    /\ Len(obj.att.buf.bufs) = MaxExtent

(***************************************************************************)
(* Properties of type classification                                       *)
(***************************************************************************)
Classifiers == {"get_type_info2", "get_netcdf_type"}

\* C15: within one open file, resolving the native handle of a named type
\* gives the same Type record every time, whichever classifier resolves
\* it, and no classifier adds a record to the file's type list.
C15_NamedTypeLookupIdempotent ==
    [][(last'.op \in Classifiers /\ last'.args[1].tid # 0) =>
          /\ obj'.types = obj.types
          /\ last'.ret = "NC_NOERR" =>
                 /\ last'.args[2] \in DOMAIN obj.types
                 /\ obj.types[last'.args[2]].tid = last'.args[1].tid
                 /\ obj.types[last'.args[2]].id = last'.args[3]
          /\ (last.op \in Classifiers /\ last.args[1] = last'.args[1]) =>
                 /\ last'.ret = last.ret
                 /\ last'.args[2] = last.args[2]]_vars

\* a named type that the file read from two links has been resolved by
\* both classifiers, one after the other, to the same record
C15_Witness ==
    /\ obj.kind = "types" /\ Len(obj.types) = 2
    /\ obj.types[1].tid = obj.types[2].tid
    /\ last.op = "get_netcdf_type" /\ last.ret = "NC_NOERR"
    /\ last.args[1] = UserType("H5T_COMPOUND", 1)
    /\ last.args[4] = last.args[1]
    /\ last.args[2] = 1 /\ last.args[5] = 1

\* C20, as stated: an integer or floating-point native type that equals none
\* of the ten native atomic types and matches no cached user-defined type
\* fails with NC_EBADTYPID and gets no atomic type id, in get_netcdf_type
\* and in get_type_info2 alike.
C20_UnknownNumberIsBadType ==
    (/\ last.op \in Classifiers
     /\ last.args[1].class \in {"H5T_INTEGER", "H5T_FLOAT"}
     /\ last.args[1].native = "none"
     /\ nc4_rec_find_hdf_type(obj.types, last.args[1]) = 0) =>
        /\ last.ret = "NC_EBADTYPID"
        /\ last.args[3] = NC_NAT

(***************************************************************************)
(* Properties of the metadata walk                                         *)
(***************************************************************************)
Opened == last.op = "nc4_open_file" /\ last.ret = "NC_NOERR"
Walked == last.op = "nc4_open_file"
WalkMeta == last.args[1]

\* C14: a coordinate variable that stores dimension id k yields a dimension
\* with id k and leaves the next-id counter of the file above k, and an
\* open after a close yields the dimensions of the open before
C14_StoredDimidKept ==
    Opened =>
        /\ \A i \in DOMAIN obj.meta.dims :
               LET d == obj.meta.dims[i]
                   k == ObjAt(storage.links, d.path).dimid
               IN k >= 0 => d.id = k /\ obj.meta.next_dimid > k
        /\ obj.closed => obj.meta.dims = obj.prev

\* a file with a stored id above the ids handed out before it has been
\* opened, closed and opened again
C14_Witness ==
    /\ Opened /\ obj.closed
    /\ \E i \in DOMAIN obj.meta.dims :
           /\ ObjAt(storage.links, obj.meta.dims[i].path).dimid = MaxDimid
           /\ obj.meta.dims[i].id = MaxDimid
           /\ obj.meta.next_dimid = MaxDimid + 1

Parent(p) == SubSeq(p, 1, Len(p) - 1)
Below(g, p) == Len(p) > Len(g) /\ SubSeq(p, 1, Len(g)) = g
LinksAt(p) == IF p = <<>> THEN storage.links ELSE ObjAt(storage.links, p).links
Reads == {"read_dataset", "read_type"}
At(ev, p) == {i \in DOMAIN last.trace :
                  last.trace[i].ev = ev /\ last.trace[i].path = p}

\* C16: whenever the walk does anything with a link of a child group, every
\* dataset and named type of the parent group has been read; a child group
\* is added to the hierarchy only after the iteration over its parent has
\* ended, the child groups are added in the order the iteration met them,
\* and everything below one is walked before the next is added
C16_ChildGroupsAfterIteration ==
    Walked =>
        \A i \in DOMAIN last.trace :
            LET e == last.trace[i]
                P == Parent(e.path)
            IN /\ Len(e.path) >= 2 =>
                      \A l \in DOMAIN LinksAt(Parent(P)) :
                          LinksAt(Parent(P))[l].kind # "H5G_GROUP" =>
                              \E j \in 1..(i - 1) :
                                  /\ last.trace[j].ev \in Reads
                                  /\ last.trace[j].path = Append(Parent(P), l)
               /\ e.ev = "nc4_grp_list_add" =>
                      /\ \A l \in DOMAIN LinksAt(P) :
                             \E j \in 1..(i - 1) :
                                 /\ last.trace[j].ev \in Reads \cup {"queued"}
                                 /\ last.trace[j].path = Append(P, l)
                      /\ \A j \in 1..(i - 1) :
                             /\ Below(P, last.trace[j].path)
                             /\ Len(last.trace[j].path) > Len(e.path)
                             => last.trace[j].path[Len(e.path)] < e.path[Len(e.path)]
                      /\ \A j \in (i + 1)..Len(last.trace) :
                             Below(P, last.trace[j].path)
                             /\ last.trace[j].ev = "nc4_grp_list_add"
                             /\ Len(last.trace[j].path) = Len(e.path)
                             => last.trace[j].path[Len(e.path)] > e.path[Len(e.path)]
               /\ e.ev \in Reads \cup {"queued"} =>
                      \A j \in 1..(i - 1) :
                          Parent(last.trace[j].path) = P
                          /\ last.trace[j].ev \in Reads \cup {"queued"}
                          => last.trace[j].path[Len(e.path)] < e.path[Len(e.path)]

\* a walk that met a group and then a dataset in the same group, and read
\* the dataset before it read a dataset inside that group
C16_Witness ==
    /\ Opened
    /\ \E i, j, k, l \in DOMAIN last.trace :
           /\ i < j /\ j < k /\ k < l
           /\ last.trace[i].ev = "queued"
           /\ last.trace[j].ev = "read_dataset"
           /\ Parent(last.trace[j].path) = Parent(last.trace[i].path)
           /\ last.trace[k].ev = "nc4_grp_list_add"
           /\ last.trace[k].path = last.trace[i].path
           /\ last.trace[l].ev = "read_dataset"
           /\ Parent(last.trace[l].path) = last.trace[i].path

EngineErrors == {"NC_EHDFERR"}

\* C17: a dataset or named type whose classification fails with
\* NC_EBADTYPID is left out and the walk goes on to the next link; the walk
\* fails only if the engine failed on some object (or the file cannot be
\* opened for writing at all)
C17_BadTypeSwallowed ==
    Walked =>
        /\ \A i \in DOMAIN last.trace :
               last.trace[i].ret = "NC_EBADTYPID" =>
                   /\ \A v \in DOMAIN WalkMeta.vars :
                          WalkMeta.vars[v].path # last.trace[i].path
                   /\ Len(LinksAt(Parent(last.trace[i].path)))
                          > last.trace[i].path[Len(last.trace[i].path)]
                      => i < Len(last.trace)
        /\ last.ret # "NC_NOERR" =>
               \/ last.ret = "NC_ECANTWRITE"
               \/ \E i \in DOMAIN last.trace : last.trace[i].ret \in EngineErrors

\* C18: after a successful open, every dataset of a named type that the
\* file holds is a variable of that type, wherever the walk met the type
C18_ForwardReferencesResolved ==
    Opened =>
        \A i \in DOMAIN last.trace :
            LET e == last.trace[i]
            IN e.ev = "read_dataset" =>
                   \A k \in DOMAIN obj.meta.types :
                       obj.meta.types[k].tid = ObjAt(storage.links, e.path).type.tid =>
                           \E v \in DOMAIN obj.meta.vars :
                               /\ obj.meta.vars[v].path = e.path
                               /\ obj.meta.vars[v].type = k

(***************************************************************************)
(* Properties of the modes of one file                                     *)
(***************************************************************************)
WasInDefine == BitAnd(last.pre.flags, NC_INDEF) # {}

\* C21: when an explicit enddef of a file in define mode returns without an
\* error, every variable of the group is marked as written
C21_EnddefMarksAllWritten ==
    (last.op = "NC4__enddef" /\ WasInDefine /\ last.ret = "NC_NOERR") =>
        \A i \in DOMAIN files[1].vars : files[1].vars[i].written_to

\* C24: an abort never removes a file that was opened with NC4_open, nor a
\* created file that has left define mode once by an enddef or sync that
\* succeeded, whatever mode the file is in when abort is called
C24_AbortKeepsEstablishedFile ==
    (last.op = "NC4_abort" /\ (last.args[1] = "NC4_open" \/ last.args[2])) =>
        /\ last.removed = "none"
        /\ "remove" \notin {last.trace[i] : i \in DOMAIN last.trace}
        /\ storage[1] = last.preStored

\* a created file that left define mode, went back into it by NC4_redef and
\* was aborted there: it is still on storage
C24_Witness ==
    /\ last.op = "NC4_abort" /\ last.ret = "NC_NOERR"
    /\ last.args = <<"NC4_create", TRUE>>
    /\ WasInDefine
    /\ last.preStored /\ storage[1]

WriteStepsIn(trace) == {i \in DOMAIN trace : \E k \in DOMAIN WriteNames : trace[i] = WriteNames[k]}

\* C25: no call on a file that was opened read-only invokes one of the
\* three metadata write steps
C25_ReadOnlyNeverWrites ==
    (last.pre.open /\ last.pre.no_write) => WriteStepsIn(last.trace) = {}

\* C26: an enddef, sync or close of a file in define mode that fails because
\* a write step or the flush failed leaves the file in define mode, with
\* the redef marker it had before the call
C26_FailedExitKeepsMode ==
    (/\ last.op \in {"NC4__enddef", "NC4_sync", "NC4_close"}
     /\ WasInDefine
     /\ last.ret = "NC_EHDFERR"
     /\ last.trace # <<>>
     /\ last.trace[Len(last.trace)] \in {WriteNames[k] : k \in DOMAIN WriteNames}
                                        \cup {"H5Fflush"}) =>
        /\ files[1].open
        /\ BitAnd(files[1].flags, NC_INDEF) # {}
        /\ files[1].redef = last.pre.redef

\* C27: NC4_close does not read the per-file record after
\* close_netcdf4_file has freed it
C27_CloseReadsLiveRecord ==
    last.op = "NC4_close" =>
        \A i, j \in DOMAIN last.trace :
            (last.trace[i] = "free" /\ last.trace[j] = "read h5->mem.memio") => j < i

(***************************************************************************)
(* Properties of dimensions                                                *)
(***************************************************************************)
\* C22: after the metadata of a file has been loaded no two dimensions of
\* the file have the same id, and the next-id counter is above every id
C22_DimensionIdsUnique ==
    Opened =>
        /\ \A i, j \in DOMAIN obj.meta.dims :
               i # j => obj.meta.dims[i].id # obj.meta.dims[j].id
        /\ \A i \in DOMAIN obj.meta.dims :
               obj.meta.next_dimid > obj.meta.dims[i].id

\* C28: a read_scale in which a step fails returns an error and leaves the
\* dimension list and the next-id counter as they were
C28_FailedScaleRestores ==
    (last.op = "read_scale" /\ last.args[1].fail # "none") =>
        /\ last.ret # "NC_NOERR"
        /\ obj.meta.dims = last.args[2].dims
        /\ obj.meta.next_dimid = last.args[2].next_dimid

(***************************************************************************)
(* Properties of the two classifiers together                              *)
(***************************************************************************)
\* C29: for every native type handed to a classifier, get_netcdf_type and
\* get_type_info2 (with a byte order it accepts) give the same return code
\* and the same type id in the same open file.
C29_ClassifiersAgree ==
    last.op \in Classifiers =>
        \A order \in {"H5T_ORDER_LE", "H5T_ORDER_BE"} :
            LET a == get_netcdf_type(obj.types, last.args[1])
                b == get_type_info2(obj.types, last.args[1], order)
            IN /\ a.ret = b.ret
               /\ a.xtype = IF b.type # 0 THEN b.types[b.type].id
                            ELSE b.phony.id

(***************************************************************************)
(* Properties of repeated attribute reads                                  *)
(***************************************************************************)
\* C30: whatever inquiries have been made of a group, succeeding or failing
\* part-way, its attribute collection holds no stored attribute twice.
C30_AttributesAddedOnce ==
    (obj.kind \in {"rootgrp", "childgrp"} /\ last.op = "NC4_inq") =>
        \A i, j \in DOMAIN obj.att :
            i # j => obj.att[i].name # obj.att[j].name

(***************************************************************************)
(* Properties of the native handles of the metadata walk                   *)
(***************************************************************************)
\* how often the object of the group at path p has been closed
Closes(trace, p) ==
    Cardinality({k \in DOMAIN trace :
                     trace[k].ev = "H5Oclose" /\ trace[k].path = p})

\* C23: when the walk of a file has ended, with or without an error, the
\* object handle of every sub-group that was queued has been closed exactly
\* once.
C23_QueuedHandlesClosedOnce ==
    Walked =>
        \A k \in DOMAIN WalkMeta.trace :
            WalkMeta.trace[k].ev = "queued" =>
                Closes(WalkMeta.trace, WalkMeta.trace[k].path) = 1

====
